---- MODULE Spec2Model ----
(***************************************************************************)
(* Model of the LaTeX export state of q1tsim (src/src/export/latex.rs):    *)
(* the matrix of Qcircuit cells, the occupancy vector in_use, the loop     *)
(* records, and the operations that build them up.                         *)
(*                                                                         *)
(* Every method of LatexExportState is an operator from the state before   *)
(* the call (a record, `self`) to the state after it; the actions below    *)
(* apply one method per step to the session's variables.  Rust indices are *)
(* kept: rows are 0..nr_bits-1 (functions over that range), column i of    *)
(* the source is matrix[i+1] here because TLA+ sequences start at 1.       *)
(***************************************************************************)
EXTENDS Integers, Sequences, FiniteSets, TLC

\* Bounds of the model: the number of calls made in one session, in one
\* session of the rendering specification, and in one session of the gate
\* drawing specification; the number of iterations of a static loop and the
\* number of operations of its body in the instruction text; the number of
\* parts of the description of a composite gate.
MaxCalls == 3
MaxRenderCalls == 5
MaxGateCalls == 3
MaxIterations == 3
MaxOps == 2
MaxParts == 2

VARIABLES nr_qbits, nr_cbits, add_init, matrix, in_use, loops, open_loops,
          panicked, touched, started, tracking, reserved, prev, last,
          nr_calls, input, output

vars == <<nr_qbits, nr_cbits, add_init, matrix, in_use, loops, open_loops,
          panicked, touched, started, tracking, reserved, prev, last,
          nr_calls, input, output>>

-----------------------------------------------------------------------------
\* Option<T>: None, or Some(x).
None == <<>>
Some(x) == <<x>>

Min(S) == CHOOSE x \in S : \A y \in S : x <= y
Max(S) == CHOOSE x \in S : \A y \in S : x >= y

\* format!("{}", k) of an integer.
Fmt(k) == ToString(k)

-----------------------------------------------------------------------------
(***************************************************************************)
(* LatexExportState.  A state record holds the fields of the struct that   *)
(* the layout uses (nr_qbits, nr_cbits, add_init, matrix, in_use, loops,   *)
(* open_loops), the flag `panicked` (a panic!() was raised: the session    *)
(* is over), and two history fields that the program does not have:       *)
(*   touched   the rows written by set_field or covered by claim_range     *)
(*             since the most recent add_column;                           *)
(*   started   the number of calls of start_loop made so far.              *)
(***************************************************************************)
\* Mutant: a new session starts with every row free.
new_all_free(q, c) ==
    [nr_qbits |-> q, nr_cbits |-> c,
     add_init |-> TRUE,
     matrix |-> <<>>,
     in_use |-> [b \in 0..(q + c - 1) |-> FALSE],
     loops |-> <<>>, open_loops |-> <<>>, panicked |-> FALSE,
     touched |-> {}, started |-> 0]

new(q, c) ==
    [nr_qbits |-> q, nr_cbits |-> c,
     add_init |-> TRUE,
     matrix |-> <<>>,
     in_use |-> [b \in 0..(q + c - 1) |-> TRUE],
     loops |-> <<>>, open_loops |-> <<>>, panicked |-> FALSE,
     touched |-> {}, started |-> 0]

total_nr_bits(self) == self.nr_qbits + self.nr_cbits

\* Mutant: the new column has cells for the quantum bits only.
add_column_qbits_only(self) ==
    LET nr_bits == self.nr_qbits IN
    [self EXCEPT !.matrix = Append(@, [b \in 0..(nr_bits - 1) |-> None]),
                 !.in_use = [b \in 0..(nr_bits - 1) |-> FALSE],
                 !.touched = {}]

\* Mutant: in_use is resized without being cleared first.
add_column_no_clear(self) ==
    LET nr_bits == total_nr_bits(self) IN
    [self EXCEPT !.matrix = Append(@, [b \in 0..(nr_bits - 1) |-> None]),
                 !.touched = {}]

add_column(self) ==
    LET nr_bits == total_nr_bits(self) IN
    [self EXCEPT !.matrix = Append(@, [b \in 0..(nr_bits - 1) |-> None]),
                 !.in_use = [b \in 0..(nr_bits - 1) |-> FALSE],
                 !.touched = {}]

\* let mut bits = qbits.to_vec();
\* bits.extend(cbs.iter().map(|&b| self.nr_qbits + b));
\* Only membership, minimum and maximum of bits are used: bits is a set.
merged_bits(self, qbits, cbits) ==
    qbits \cup (IF cbits = None THEN {}
                ELSE {self.nr_qbits + b : b \in cbits[1]})

\* Mutant: a column is added only when all named rows are occupied.
reserve_if_all(self, qbits, cbits) ==
    LET bits == merged_bits(self, qbits, cbits) IN
    IF bits # {} /\ \A b \in bits : self.in_use[b]
    THEN add_column(self) ELSE self

\* Mutant: the rows between the named rows count too.
reserve_between(self, qbits, cbits) ==
    LET bits == merged_bits(self, qbits, cbits) IN
    IF \E b \in bits : \E c \in bits :
          \E x \in b..c : self.in_use[x]
    THEN add_column(self) ELSE self

reserve(self, qbits, cbits) ==
    LET bits == merged_bits(self, qbits, cbits) IN
    IF \E b \in bits : self.in_use[b] THEN add_column(self) ELSE self

\* Mutant: only the named rows are looked at.
reserve_range_named_only(self, qbits, cbits) ==
    LET bits == merged_bits(self, qbits, cbits) IN
    IF \E b \in bits : self.in_use[b] THEN add_column(self) ELSE self

\* Mutant: an empty bit set is taken as row 0 (min().unwrap_or(0)).
reserve_range_default_zero(self, qbits, cbits) ==
    LET bits == merged_bits(self, qbits, cbits)
        first == IF bits = {} THEN 0 ELSE Min(bits)
        lst == IF bits = {} THEN 0 ELSE Max(bits)
    IN IF \E b \in first..lst : self.in_use[b]
       THEN add_column(self) ELSE self

reserve_range(self, qbits, cbits) ==
    LET bits == merged_bits(self, qbits, cbits) IN
    IF bits # {}
    THEN LET first == Min(bits)
             lst == Max(bits)
         IN IF \E b \in first..lst : self.in_use[b]
            THEN add_column(self) ELSE self
    ELSE self

\* Mutant: only the rows of the quantum bits are looked at.
reserve_all_qbits_only(self) ==
    IF \E b \in 0..(self.nr_qbits - 1) : self.in_use[b]
    THEN add_column(self) ELSE self

reserve_all(self) ==
    IF \E b \in DOMAIN self.in_use : self.in_use[b]
    THEN add_column(self) ELSE self

\* Mutant: the range ends before the highest named row (first..last).
claim_range_exclusive(self, qbits, cbits) ==
    LET bits == merged_bits(self, qbits, cbits) IN
    IF bits # {}
    THEN LET first == Min(bits)
             lst == Max(bits)
         IN [self EXCEPT
                !.in_use = [b \in DOMAIN @ |->
                               IF b \in first..(lst - 1) THEN TRUE ELSE @[b]],
                !.touched = @ \cup (first..(lst - 1))]
    ELSE self

claim_range(self, qbits, cbits) ==
    LET bits == merged_bits(self, qbits, cbits) IN
    IF bits # {}
    THEN LET first == Min(bits)
             lst == Max(bits)
         IN [self EXCEPT
                !.in_use = [b \in DOMAIN @ |->
                               IF b \in first..lst THEN TRUE ELSE @[b]],
                !.touched = @ \cup (first..lst)]
    ELSE self

\* Mutant: the row is not marked as in use.
set_field_no_mark(self, bit, contents) ==
    LET s1 == IF self.matrix = <<>> THEN add_column(self) ELSE self IN
    [s1 EXCEPT !.matrix[Len(s1.matrix)][bit] = Some(contents),
               !.touched = @ \cup {bit}]

\* Mutant: a column is added when the row is in use.
set_field_checked(self, bit, contents) ==
    LET s1 == IF self.matrix = <<>> \/ self.in_use[bit]
              THEN add_column(self) ELSE self
    IN [s1 EXCEPT !.matrix[Len(s1.matrix)][bit] = Some(contents),
                  !.in_use[bit] = TRUE,
                  !.touched = @ \cup {bit}]

\* Mutant: the write goes to the first column instead of the last.
set_field_first_column(self, bit, contents) ==
    LET s1 == IF self.matrix = <<>> THEN add_column(self) ELSE self IN
    [s1 EXCEPT !.matrix[1][bit] = Some(contents),
               !.in_use[bit] = TRUE,
               !.touched = @ \cup {bit}]

set_field(self, bit, contents) ==
    LET s1 == IF self.matrix = <<>> THEN add_column(self) ELSE self IN
    [s1 EXCEPT !.matrix[Len(s1.matrix)][bit] = Some(contents),
               !.in_use[bit] = TRUE,
               !.touched = @ \cup {bit}]

\* Mutant: the rows between the two markers are not claimed.
set_measurement_no_claim(self, qbit, cbit, basis) ==
    LET cbit_idx == self.nr_qbits + cbit
        s1 == reserve_range(self, {qbit}, Some({cbit}))
        meter == IF basis # None
                 THEN "\\meterB{" \o basis[1] \o "}"
                 ELSE "\\meter"
        s2 == set_field(s1, qbit, meter)
    IN set_field(s2, cbit_idx,
                 "\\cw \\cwx[" \o Fmt(qbit - cbit_idx) \o "]")

\* Mutant: the measurement is written without reserving its range.
set_measurement_unreserved(self, qbit, cbit, basis) ==
    LET cbit_idx == self.nr_qbits + cbit
        meter == IF basis # None
                 THEN "\\meterB{" \o basis[1] \o "}"
                 ELSE "\\meter"
        s2 == set_field(self, qbit, meter)
        s3 == set_field(s2, cbit_idx,
                        "\\cw \\cwx[" \o Fmt(qbit - cbit_idx) \o "]")
    IN claim_range(s3, {qbit}, Some({cbit}))

set_measurement(self, qbit, cbit, basis) ==
    LET cbit_idx == self.nr_qbits + cbit
        s1 == reserve_range(self, {qbit}, Some({cbit}))
        meter == IF basis # None
                 THEN "\\meterB{" \o basis[1] \o "}"
                 ELSE "\\meter"
        s2 == set_field(s1, qbit, meter)
        s3 == set_field(s2, cbit_idx,
                        "\\cw \\cwx[" \o Fmt(qbit - cbit_idx) \o "]")
    IN claim_range(s3, {qbit}, Some({cbit}))

\* Mutant: the reset reserves all rows instead of its own.
set_reset_reserve_all(self, qbit) ==
    set_field(reserve_all(self), qbit,
              "\\push{~\\ket{0}~} \\ar @{|-{}} [0,-1]")

set_reset(self, qbit) ==
    set_field(reserve(self, {qbit}, None), qbit,
              "\\push{~\\ket{0}~} \\ar @{|-{}} [0,-1]")

\* control.iter().enumerate().map(|(pos, &idx)| (nr_qbits + idx, pos)),
\* sorted: the pairs <<bit, pos>> in ascending (bit, pos) order.
RECURSIVE sorted_pairs(_)
sorted_pairs(S) ==
    IF S = {} THEN <<>>
    ELSE LET m == CHOOSE x \in S : \A y \in S :
                     \/ x[1] < y[1]
                     \/ (x[1] = y[1] /\ x[2] <= y[2])
         IN <<m>> \o sorted_pairs(S \ {m})

\* target & (1 << pos)
target_bit(target, pos) == (target \div (2 ^ pos)) % 2

\* for (bit, pos) in bp { ... }
RECURSIVE condition_loop(_, _, _, _)
condition_loop(self, bp, target, pbit) ==
    IF bp = <<>> THEN self
    ELSE LET bit == bp[1][1]
             pos == bp[1][2]
             ctrl == IF target_bit(target, pos) = 0
                     THEN "\\cctrlo" ELSE "\\cctrl"
             s1 == set_field(self, bit,
                             ctrl \o "{" \o Fmt(pbit - bit) \o "}")
         IN condition_loop(s1, Tail(bp), target, bit)

\* Mutant: the control rows are visited in the order of the control array.
set_condition_unsorted(self, control, target, qbits) ==
    IF qbits = {} THEN self
    ELSE LET pbit == Max(qbits)
             bp == [p \in 1..Len(control) |->
                       <<self.nr_qbits + control[p], p - 1>>]
             s1 == condition_loop(self, bp, target, pbit)
         IN claim_range(s1, qbits, Some({control[i] : i \in 1..Len(control)}))

\* Mutant: the bit of target tested for a row is its rank among the control
\* rows instead of its position in the control array.
set_condition_by_row(self, control, target, qbits) ==
    IF qbits = {} THEN self
    ELSE LET pbit == Max(qbits)
             rank(p) == Cardinality({q \in 1..Len(control) :
                                        control[q] < control[p]})
             bp == sorted_pairs({<<self.nr_qbits + control[p], rank(p)>> :
                                    p \in 1..Len(control)})
             s1 == condition_loop(self, bp, target, pbit)
         IN claim_range(s1, qbits, Some({control[i] : i \in 1..Len(control)}))

\* Mutant: no early return for empty qbits; max().unwrap() then panics.
set_condition_unguarded(self, control, target, qbits) ==
    IF qbits = {} THEN [self EXCEPT !.panicked = TRUE]
    ELSE LET pbit == Max(qbits)
             bp == sorted_pairs({<<self.nr_qbits + control[p + 1], p>> :
                                    p \in 0..(Len(control) - 1)})
             s1 == condition_loop(self, bp, target, pbit)
         IN claim_range(s1, qbits, Some({control[i] : i \in 1..Len(control)}))

\* control is a sequence of classical bits (its order gives the bit position
\* in target); qbits is used through is_empty, max and claim_range: a set.
set_condition(self, control, target, qbits) ==
    IF qbits = {} THEN self
    ELSE LET pbit == Max(qbits)
             bp == sorted_pairs({<<self.nr_qbits + control[p + 1], p>> :
                                    p \in 0..(Len(control) - 1)})
             s1 == condition_loop(self, bp, target, pbit)
         IN claim_range(s1, qbits, Some({control[i] : i \in 1..Len(control)}))

\* Mutant: the region is opened at the last column without a reservation.
start_loop_unreserved(self, count) ==
    [self EXCEPT !.open_loops = Append(@, <<Len(self.matrix) - 1, count>>),
                 !.started = @ + 1]

\* Mutant: the region is opened at the number of columns.
start_loop_next(self, count) ==
    LET s1 == reserve_all(self) IN
    [s1 EXCEPT !.open_loops = Append(@, <<Len(s1.matrix), count>>),
               !.started = @ + 1]

\* self.matrix.len() - 1 cannot underflow here: reserve_all leaves at least
\* one column when the session has at least one row (see Sizes).
start_loop(self, count) ==
    LET s1 == reserve_all(self) IN
    [s1 EXCEPT !.open_loops = Append(@, <<Len(s1.matrix) - 1, count>>),
               !.started = @ + 1]

\* Mutant: the region opened first is closed, not the one opened last.
end_loop_oldest(self) ==
    IF self.open_loops # <<>>
    THEN LET start == self.open_loops[1][1]
             count == self.open_loops[1][2]
             end == Len(self.matrix) - 1
             s1 == [self EXCEPT !.open_loops = Tail(@),
                                !.loops = Append(@, <<start, end, count>>)]
         IN reserve_all(s1)
    ELSE [self EXCEPT !.panicked = TRUE]

\* Mutant: end_loop without an open region returns without doing anything.
end_loop_lenient(self) ==
    IF self.open_loops # <<>>
    THEN LET n == Len(self.open_loops)
             start == self.open_loops[n][1]
             count == self.open_loops[n][2]
             end == Len(self.matrix) - 1
             s1 == [self EXCEPT !.open_loops = SubSeq(@, 1, n - 1),
                                !.loops = Append(@, <<start, end, count>>)]
         IN reserve_all(s1)
    ELSE self

end_loop(self) ==
    IF self.open_loops # <<>>
    THEN LET n == Len(self.open_loops)
             start == self.open_loops[n][1]
             count == self.open_loops[n][2]
             end == Len(self.matrix) - 1
             s1 == [self EXCEPT !.open_loops = SubSeq(@, 1, n - 1),
                                !.loops = Append(@, <<start, end, count>>)]
         IN reserve_all(s1)
    ELSE [self EXCEPT !.panicked = TRUE]

\* Mutant: the label is written without the reservation before it.
add_cds_unreserved(self, bit, count, label) ==
    LET s2 == set_field(self, bit,
                        "\\cds{" \o Fmt(count) \o "}{" \o label \o "}")
    IN reserve_all(s2)

add_cds(self, bit, count, label) ==
    LET s1 == reserve_all(self)
        s2 == set_field(s1, bit,
                        "\\cds{" \o Fmt(count) \o "}{" \o label \o "}")
    IN reserve_all(s2)

\* support::get_ranges: the maximal runs of adjacent indices in bits, as
\* pairs <<first, last>> in ascending order.
RECURSIVE get_ranges(_)
get_ranges(bits) ==
    IF bits = {} THEN <<>>
    ELSE LET first == Min(bits)
             lst == CHOOSE l \in bits :
                       /\ \A b \in first..l : b \in bits
                       /\ (l + 1) \notin bits
         IN <<<<first, lst>>>> \o get_ranges({b \in bits : b > lst})

\* for (first, last) in ranges { self.set_field(first, ...) }
RECURSIVE barrier_loop(_, _)
barrier_loop(self, ranges) ==
    IF ranges = <<>> THEN self
    ELSE LET first == ranges[1][1]
             lst == ranges[1][2]
         IN barrier_loop(
                set_field(self, first,
                          "\\qw \\barrier{" \o Fmt(lst - first) \o "}"),
                Tail(ranges))

\* Mutant: the barrier opens a column only if some row is occupied.
set_barrier_reserve_all(self, qbits) ==
    LET ranges == get_ranges(qbits) IN
    barrier_loop(reserve_all(self), ranges)

\* Mutant: the marker carries the number of rows of the range.
set_barrier_nr_rows(self, qbits) ==
    LET ranges == get_ranges(qbits)
        s1 == add_column(self)
        firsts == {ranges[i][1] : i \in 1..Len(ranges)}
        lastOf(b) == CHOOSE l \in qbits :
                        \E i \in 1..Len(ranges) : ranges[i] = <<b, l>>
    IN [s1 EXCEPT
          !.matrix[Len(s1.matrix)] =
              [b \in DOMAIN @ |->
                  IF b \in firsts
                  THEN Some("\\qw \\barrier{" \o Fmt(lastOf(b) - b + 1)
                            \o "}")
                  ELSE @[b]],
          !.in_use = [b \in DOMAIN @ |-> @[b] \/ b \in firsts],
          !.touched = @ \cup firsts]

\* Mutant: every row that the barrier covers is marked as in use.
set_barrier_claimed(self, qbits) ==
    LET s1 == barrier_loop(add_column(self), get_ranges(qbits)) IN
    [s1 EXCEPT !.in_use = [b \in DOMAIN @ |-> @[b] \/ b \in qbits],
               !.touched = @ \cup qbits]

set_barrier(self, qbits) ==
    LET ranges == get_ranges(qbits) IN
    barrier_loop(add_column(self), ranges)

\* "s".repeat(n)
RECURSIVE repeat(_, _)
repeat(s, n) == IF n = 0 THEN "" ELSE s \o repeat(s, n - 1)

\* The brace of one loop: the format! of code(), with its nine arguments.
loop_brace(start, end, count) ==
    "\\mbox{} \\POS\"" \o Fmt(2) \o "," \o Fmt(start + 2)
    \o "\".\"" \o Fmt(2) \o "," \o Fmt(start + 2)
    \o "\".\"" \o Fmt(2) \o "," \o Fmt(end + 2)
    \o "\".\"" \o Fmt(2) \o "," \o Fmt(end + 2)
    \o "\"!C*+<.7em>\\frm{^\\}},+U*++!D{" \o Fmt(count) \o "\\times}"

\* for (start, end, count) in self.loops.iter() { ... }: the text appended
\* for the loops from index k on.  start - prev_idx is a subtraction of
\* usize: when start < prev_idx it panics (overflow check), or wraps to a
\* count for which repeat() panics (capacity overflow); None stands for
\* both.
RECURSIVE code_loops(_, _, _)
code_loops(lps, k, prev_idx) ==
    IF k > Len(lps) THEN Some("")
    ELSE LET start == lps[k][1]
             end == lps[k][2]
             count == lps[k][3]
         IN IF start < prev_idx THEN None
            ELSE LET rest == code_loops(lps, k + 1, start) IN
                 IF rest = None THEN None
                 ELSE Some(repeat("& ", start - prev_idx)
                           \o loop_brace(start, end, count) \o rest[1])

\* Mutant: without labels the row starts with the idle wire of its kind.
code_lstick_wire(self, i) ==
    IF self.add_init
    THEN IF i < self.nr_qbits THEN "    \\lstick{\\ket{0}}"
         ELSE "    \\lstick{0}"
    ELSE IF i < self.nr_qbits THEN "    \\qw" ELSE "    \\cw"

\* The text before the first column of row i.
code_lstick(self, i) ==
    IF self.add_init
    THEN IF i < self.nr_qbits THEN "    \\lstick{\\ket{0}}"
         ELSE "    \\lstick{0}"
    ELSE "    "

\* Mutant: an empty cell is drawn as a quantum wire on every row.
code_cell_qw(self, i, cell) ==
    IF cell # None THEN cell[1]
    ELSE "\\qw"

\* The text of one cell of row i.
code_cell(self, i, cell) ==
    IF cell # None THEN cell[1]
    ELSE IF i < self.nr_qbits THEN "\\qw"
    ELSE "\\cw"

\* The cells of row i: one per column, and one more if the last column is
\* in use.
code_cells(self, i) ==
    LET last_col_used == \E b \in DOMAIN self.in_use : self.in_use[b]
    IN [k \in 1..Len(self.matrix) |-> code_cell(self, i, self.matrix[k][i])]
       \o (IF last_col_used
           THEN <<IF i < self.nr_qbits THEN "\\qw" ELSE "\\cw">>
           ELSE <<>>)

RECURSIVE JoinCells(_)
JoinCells(cells) ==
    IF cells = <<>> THEN ""
    ELSE " & " \o cells[1] \o JoinCells(Tail(cells))

code_row(self, i) ==
    code_lstick(self, i) \o JoinCells(code_cells(self, i)) \o " \\\\\n"

\* for i in 0..self.total_nr_bits() { ... }, from row i on.
RECURSIVE code_rows(_, _)
code_rows(self, i) ==
    IF i >= total_nr_bits(self) THEN ""
    ELSE code_row(self, i) \o code_rows(self, i + 1)

\* The two lines written when loops were recorded; None if that panics.
code_header(self) ==
    IF self.loops # <<>>
    THEN LET braces == code_loops(self.loops, 1, 0) IN
         IF braces = None THEN None
         ELSE Some("    & " \o braces[1] \o "\\\\\n"
                   \o "    " \o repeat("& ", Len(self.matrix)) \o "\\\\\n")
    ELSE Some("")

\* code(): None if it panics, else the text returned.
code(self) ==
    LET header == code_header(self) IN
    IF header = None THEN None
    ELSE Some("\\Qcircuit @C=1em @R=.7em {\n"
              \o header[1] \o code_rows(self, 0) \o "}\n")

set_add_init(self, init) == [self EXCEPT !.add_init = init]

\* Latex::latex of a gate that draws one fragment on each of its bits: the
\* content is written on every row in bits, without any reservation.
RECURSIVE latex(_, _, _)
latex(self, bits, contents) ==
    IF bits = {} THEN self
    ELSE LET b == Min(bits) IN
         latex(set_field(self, b, contents), bits \ {b}, contents)

\* Mutant: the reservation covers the whole range of the bits.
latex_checked_range(self, bits, contents) ==
    latex(reserve_range(self, bits, None), bits, contents)

\* Latex::latex_checked, the default implementation.
latex_checked(self, bits, contents) ==
    latex(reserve(self, bits, None), bits, contents)

\* Mutant: every number of iterations above one is drawn as a region.
Loop_latex_always_region(self, nr_iterations, bits, contents) ==
    IF nr_iterations = 1 THEN latex(self, bits, contents)
    ELSE IF nr_iterations > 1
    THEN IF bits = {} THEN [self EXCEPT !.panicked = TRUE]
         ELSE LET min == Min(bits)
                  max == Max(bits)
                  s1 == start_loop(self, nr_iterations)
                  s2 == latex(s1, bits, contents)
                  s3 == add_cds(s2, min, max - min, "\\cdots")
                  s4 == latex_checked(s3, bits, contents)
              IN end_loop(s4)
    ELSE self

\* Loop::latex, for a loop whose body draws `contents` on its bits.
\* bits.iter().min().unwrap() panics when bits is empty.
Loop_latex(self, nr_iterations, bits, contents) ==
    IF nr_iterations = 1 THEN latex(self, bits, contents)
    ELSE IF nr_iterations = 2
    THEN latex_checked(latex(self, bits, contents), bits, contents)
    ELSE IF nr_iterations > 2
    THEN IF bits = {} THEN [self EXCEPT !.panicked = TRUE]
         ELSE LET min == Min(bits)
                  max == Max(bits)
                  s1 == start_loop(self, nr_iterations)
                  s2 == latex(s1, bits, contents)
                  s3 == add_cds(s2, min, max - min, "\\cdots")
                  s4 == latex_checked(s3, bits, contents)
              IN end_loop(s4)
    ELSE self

-----------------------------------------------------------------------------
(***************************************************************************)
(* The instruction text of gates (src/src/gates).  A gate is a record with *)
(* its kind and its angle; an angle is kept in hundredths.  A slice of bit *)
(* numbers is a sequence, and bits[b] of the source is bits[b + 1] here.   *)
(***************************************************************************)
Ok(x) == <<"Ok", x>>
Err(e) == <<"Err", e>>

\* format!("{}", x) of a non-negative f64 with at most two decimals, given
\* in hundredths: the shortest text, without trailing zeros.
Fmt_f64(h) ==
    LET int == h \div 100
        frac == h % 100
    IN IF frac = 0 THEN ToString(int)
       ELSE IF frac % 10 = 0
       THEN ToString(int) \o "." \o ToString(frac \div 10)
       ELSE ToString(int) \o "." \o ToString(frac \div 10)
            \o ToString(frac % 10)

T_open_qasm(bit_names, bits) == "t " \o bit_names[bits[1] + 1]
Tdg_open_qasm(bit_names, bits) == "tdg " \o bit_names[bits[1] + 1]
RY_open_qasm(self, bit_names, bits) ==
    "u3(" \o Fmt_f64(self.theta) \o ", 0, 0) " \o bit_names[bits[1] + 1]
RZ_open_qasm(self, bit_names, bits) ==
    "rz(" \o Fmt_f64(self.lambda) \o ") " \o bit_names[bits[1] + 1]

\* op.gate.open_qasm(bit_names, &gate_bits), on a Box<CircuitGate>.
Gate_open_qasm(gate, bit_names, bits) ==
    CASE gate.kind = "T" -> T_open_qasm(bit_names, bits)
      [] gate.kind = "Tdg" -> Tdg_open_qasm(bit_names, bits)
      [] gate.kind = "RY" -> RY_open_qasm(gate, bit_names, bits)
      [] gate.kind = "RZ" -> RZ_open_qasm(gate, bit_names, bits)

\* op.bits.iter().map(|&b| bits[b]).collect()
gate_bits(op, bits) == [i \in 1..Len(op.bits) |-> bits[op.bits[i] + 1]]

\* for op in self.ops[k..].iter() { res += &format!("; {}", ...) }
RECURSIVE Composite_open_qasm_rest(_, _, _, _)
Composite_open_qasm_rest(self, k, bit_names, bits) ==
    IF k > Len(self.ops) THEN ""
    ELSE "; " \o Gate_open_qasm(self.ops[k].gate, bit_names,
                                gate_bits(self.ops[k], bits))
         \o Composite_open_qasm_rest(self, k + 1, bit_names, bits)

Composite_open_qasm(self, bit_names, bits) ==
    IF Len(self.ops) > 0
    THEN Gate_open_qasm(self.ops[1].gate, bit_names,
                        gate_bits(self.ops[1], bits))
         \o Composite_open_qasm_rest(self, 2, bit_names, bits)
    ELSE ""

\* for _ in 1..self.nr_iterations { res += ";\n"; res += &qasm_body; },
\* with k iterations left.
RECURSIVE Loop_open_qasm_rest(_, _)
Loop_open_qasm_rest(qasm_body, k) ==
    IF k = 0 THEN ""
    ELSE ";\n" \o qasm_body \o Loop_open_qasm_rest(qasm_body, k - 1)

\* Mutant: every copy of the body is followed by the separator.
Loop_open_qasm_terminated(self, bit_names, bits) ==
    IF self.nr_iterations = 0 THEN ""
    ELSE LET qasm_body == Composite_open_qasm(self.body, bit_names, bits)
         IN qasm_body \o Loop_open_qasm_rest(qasm_body,
                                             self.nr_iterations - 1)
            \o ";\n"

Loop_open_qasm(self, bit_names, bits) ==
    IF self.nr_iterations = 0 THEN ""
    ELSE LET qasm_body == Composite_open_qasm(self.body, bit_names, bits)
         IN qasm_body \o Loop_open_qasm_rest(qasm_body,
                                             self.nr_iterations - 1)

\* Mutant: the default of the trait, a condition before the instruction.
OpenQasm_conditional_open_qasm(self, condition, bit_names, bits) ==
    Ok("if (" \o condition \o ") "
       \o Loop_open_qasm(self, bit_names, bits))

Loop_conditional_open_qasm(self, condition, bit_names, bits) ==
    Err("Classical conditions cannot be used in conjunction with a static loop")

Loop_conditional_c_qasm(self, condition, bit_names, bits) ==
    Err("Classical conditions cannot be used in conjunction with a static loop")

-----------------------------------------------------------------------------
(***************************************************************************)
(* Composite::from_string (src/src/gates/composite.rs).  A &str is the     *)
(* sequence of its characters, each a string of length one, so that the    *)
(* regular expressions of the parser are matched character by character.   *)
(* A usize is kept as its decimal digits without leading zeros: bit        *)
(* numbers up to usize::MAX = 2^64 - 1 and beyond are compared exactly.    *)
(***************************************************************************)
Letters == {"a", "b", "c", "d", "e", "f", "g", "h", "i", "j", "k", "l", "m",
            "n", "o", "p", "q", "r", "s", "t", "u", "v", "w", "x", "y", "z",
            "A", "B", "C", "D", "E", "F", "G", "H", "I", "J", "K", "L", "M",
            "N", "O", "P", "Q", "R", "S", "T", "U", "V", "W", "X", "Y", "Z"}
Upper == <<"A", "B", "C", "D", "E", "F", "G", "H", "I", "J", "K", "L", "M",
           "N", "O", "P", "Q", "R", "S", "T", "U", "V", "W", "X", "Y", "Z">>
Lower == <<"a", "b", "c", "d", "e", "f", "g", "h", "i", "j", "k", "l", "m",
           "n", "o", "p", "q", "r", "s", "t", "u", "v", "w", "x", "y", "z">>
DigitChars == <<"0", "1", "2", "3", "4", "5", "6", "7", "8", "9">>

\* The character classes \s, [a-z] under (?i), \d and [a-z0-9], and the
\* characters that descriptions are made of.
Spaces == {" ", "\t", "\n", "\r"}
Digits == {DigitChars[k] : k \in 1..10}
Alnums == Letters \cup Digits
Chars == Alnums \cup Spaces \cup {"(", ")", ",", ";", ".", "+", "-"}
\* [^\)], and the characters that are not a separator of split().
NotClose == Chars \ {")"}
NotComma == Chars \ {","}
NotSemicolon == Chars \ {";"}
IsSpace(c) == c \in Spaces
IsAlpha(c) == c \in Letters
IsDigit(c) == c \in Digits

\* A greedy class*: the index after the longest run of characters of the
\* class from i on.
Span(s, i, class) ==
    CHOOSE j \in i..(Len(s) + 1) :
        /\ \A k \in i..(j - 1) : s[k] \in class
        /\ j = Len(s) + 1 \/ s[j] \notin class

\* The String of a sequence of characters.
RECURSIVE Str(_)
Str(s) == IF s = <<>> THEN "" ELSE s[1] \o Str(Tail(s))

\* str::trim
trim(s) ==
    LET i == Span(s, 1, Spaces) IN
    IF i > Len(s) THEN <<>>
    ELSE LET j == CHOOSE j \in i..Len(s) :
                     /\ ~IsSpace(s[j])
                     /\ \A k \in (j + 1)..Len(s) : IsSpace(s[k])
         IN SubSeq(s, i, j)

\* str::to_lowercase
to_lowercase(s) ==
    [i \in 1..Len(s) |->
        IF \E k \in 1..26 : Upper[k] = s[i]
        THEN Lower[CHOOSE k \in 1..26 : Upper[k] = s[i]]
        ELSE s[i]]

\* s.split(','): the pieces between the separators, at least one piece.
RECURSIVE split_comma(_)
split_comma(s) ==
    LET j == Span(s, 1, NotComma) IN
    IF j > Len(s) THEN <<s>>
    ELSE <<SubSeq(s, 1, j - 1)>> \o split_comma(SubSeq(s, j + 1, Len(s)))

\* s.split(';')
RECURSIVE split_semicolon(_)
split_semicolon(s) ==
    LET j == Span(s, 1, NotSemicolon) IN
    IF j > Len(s) THEN <<s>>
    ELSE <<SubSeq(s, 1, j - 1)>>
         \o split_semicolon(SubSeq(s, j + 1, Len(s)))

\* str::parse::<f64>(), for texts without exponent, "inf" or "nan": an
\* optional sign, digits with at most one point, at least one digit.
parse_f64(s) ==
    LET i == IF s # <<>> /\ s[1] \in {"+", "-"} THEN 2 ELSE 1
        j == Span(s, i, Digits)
        k == IF j <= Len(s) /\ s[j] = "." THEN j + 1 ELSE j
        l == Span(s, k, Digits)
    IN IF l = Len(s) + 1 /\ (j > i \/ l > k) THEN Some(Str(s)) ELSE None

\* usize::MAX on a 64-bit target.
USIZE_MAX == <<"1", "8", "4", "4", "6", "7", "4", "4", "0", "7", "3", "7",
               "0", "9", "5", "5", "1", "6", "1", "5">>

DigitVal(c) == (CHOOSE k \in 1..10 : DigitChars[k] = c) - 1

\* a <= b, for two numbers given by their digits without leading zeros.
usize_le(a, b) ==
    \/ Len(a) < Len(b)
    \/ /\ Len(a) = Len(b)
       /\ \/ a = b
          \/ LET d == CHOOSE d \in 1..Len(a) :
                         /\ a[d] # b[d]
                         /\ \A k \in 1..(d - 1) : a[k] = b[k]
             IN DigitVal(a[d]) < DigitVal(b[d])

usize_max(a, b) == IF usize_le(a, b) THEN b ELSE a

\* a + 1, without a limit.
RECURSIVE usize_succ(_)
usize_succ(a) ==
    IF a = <<>> THEN <<"1">>
    ELSE IF a[Len(a)] = "9"
    THEN Append(usize_succ(SubSeq(a, 1, Len(a) - 1)), "0")
    ELSE [a EXCEPT ![Len(a)] = DigitChars[DigitVal(@) + 2]]

\* str::parse::<usize>() of a text of digits: None when it overflows.
parse_usize(s) ==
    LET z == Span(s, 1, {"0"})
        digits == IF z > Len(s) THEN <<"0">> ELSE SubSeq(s, z, Len(s))
    IN IF usize_le(digits, USIZE_MAX) THEN Some(digits) ELSE None

ParseError(kind, text) == <<kind, Str(text)>>

\* (?i)^\s*([a-z][a-z0-9]*)
parse_gate_name(desc) ==
    LET i == Span(desc, 1, Spaces) IN
    IF i <= Len(desc) /\ IsAlpha(desc[i])
    THEN LET j == Span(desc, i + 1, Alnums) IN
         Ok(<<SubSeq(desc, i, j - 1), SubSeq(desc, j, Len(desc))>>)
    ELSE Err(ParseError("NoGateName", desc))

\* for arg_txt in captures[1].split(',') { ... }, from piece k on.
RECURSIVE parse_args_loop(_, _, _)
parse_args_loop(pieces, k, args) ==
    IF k > Len(pieces) THEN Ok(args)
    ELSE LET arg == parse_f64(trim(pieces[k])) IN
         IF arg # None
         THEN parse_args_loop(pieces, k + 1, Append(args, arg[1]))
         ELSE Err(ParseError("InvalidArgument", pieces[k]))

\* ^\s*\(\s*([^\)]*)\s*\)
parse_gate_args(desc) ==
    LET i == Span(desc, 1, Spaces) IN
    IF i <= Len(desc) /\ desc[i] = "("
    THEN LET k == Span(desc, i + 1, Spaces)
             e == Span(desc, k, NotClose)
         IN IF e <= Len(desc)
            THEN LET rest == SubSeq(desc, e + 1, Len(desc))
                     args == parse_args_loop(
                                 split_comma(SubSeq(desc, k, e - 1)),
                                 1, <<>>)
                 IN IF args[1] = "Ok" THEN Ok(<<args[2], rest>>)
                    ELSE args
            ELSE Ok(<<<<>>, desc>>)
    ELSE Ok(<<<<>>, desc>>)

\* while let Some(captures) = re.captures(rest) { ... }, for ^\s*(\d+)
RECURSIVE parse_bits_loop(_, _)
parse_bits_loop(rest, bits) ==
    LET i == Span(rest, 1, Spaces) IN
    IF i <= Len(rest) /\ IsDigit(rest[i])
    THEN LET j == Span(rest, i + 1, Digits)
             bit_txt == SubSeq(rest, i, j - 1)
             bit == parse_usize(bit_txt)
         IN IF bit # None
            THEN parse_bits_loop(SubSeq(rest, j, Len(rest)),
                                 Append(bits, bit[1]))
            ELSE Err(ParseError("InvalidBit", bit_txt))
    ELSE Ok(<<bits, rest>>)

parse_gate_bits(desc, name) ==
    LET res == parse_bits_loop(desc, <<>>) IN
    IF res[1] = "Err" THEN res
    ELSE IF res[2][1] = <<>> THEN Err(ParseError("NoBits", name))
    ELSE res

parse_gate_desc(desc) ==
    LET n == parse_gate_name(desc) IN
    IF n[1] = "Err" THEN n
    ELSE LET name == n[2][1]
             a == parse_gate_args(n[2][2])
         IN IF a[1] = "Err" THEN a
            ELSE LET args == a[2][1]
                     b == parse_gate_bits(a[2][2], name)
                 IN IF b[1] = "Err" THEN b
                    ELSE LET bits == b[2][1]
                             rest == trim(b[2][2])
                         IN IF rest # <<>>
                            THEN Err(ParseError("TrailingText", rest))
                            ELSE Ok([name |-> name, args |-> args,
                                     bits |-> bits])

assert_nr_args_bits(nr_args, nr_bits, desc) ==
    IF nr_args # Len(desc.args)
    THEN Err(ParseError("InvalidNrArguments", desc.name))
    ELSE IF nr_bits # Len(desc.bits)
    THEN Err(ParseError("InvalidNrBits", desc.name))
    ELSE Ok(<<>>)

\* The arms of the match in from_string: the number of arguments and of
\* bits that each gate name stands for.
GateArms ==
    [ccx |-> <<0, 3>>, ccz |-> <<0, 3>>, ch |-> <<0, 2>>, crx |-> <<1, 2>>,
     cry |-> <<1, 2>>, crz |-> <<1, 2>>, cs |-> <<0, 2>>, csdg |-> <<0, 2>>,
     ct |-> <<0, 2>>, ctdg |-> <<0, 2>>, cv |-> <<0, 2>>, cvdg |-> <<0, 2>>,
     cx |-> <<0, 2>>, cy |-> <<0, 2>>, cz |-> <<0, 2>>, h |-> <<0, 1>>,
     rx |-> <<1, 1>>, ry |-> <<1, 1>>, rz |-> <<1, 1>>, s |-> <<0, 1>>,
     sdg |-> <<0, 1>>, t |-> <<0, 1>>, tdg |-> <<0, 1>>, swap |-> <<0, 2>>,
     u1 |-> <<1, 1>>, u2 |-> <<2, 1>>, u3 |-> <<3, 1>>, v |-> <<0, 1>>,
     vdg |-> <<0, 1>>, x |-> <<0, 1>>, y |-> <<0, 1>>, z |-> <<0, 1>>]

\* *gate.bits.iter().max().unwrap(), for a gate with at least one bit.
iter_max(bits) ==
    CHOOSE b \in {bits[i] : i \in 1..Len(bits)} :
        \A i \in 1..Len(bits) : usize_le(bits[i], b)

RECURSIVE from_string_parse(_, _, _, _)
\* The body of the loop after parse_gate_desc(part) returned `gate`.
from_string_part(parts, k, gates, max_bit, gate) ==
    IF gate[1] = "Err" THEN gate
    ELSE from_string_parse(parts, k + 1, Append(gates, gate[2]),
                           usize_max(max_bit, iter_max(gate[2].bits)))

\* for part in desc.split(';') { ... }, from part k on: the descriptions
\* and the highest bit number, or the first error.
from_string_parse(parts, k, gates, max_bit) ==
    IF k > Len(parts) THEN Ok(<<gates, max_bit>>)
    ELSE from_string_part(parts, k, gates, max_bit,
                          parse_gate_desc(parts[k]))

\* for gate in gates { match ... }, from gate k on.
RECURSIVE from_string_build(_, _, _)
from_string_build(composite, gates, k) ==
    IF k > Len(gates) THEN Ok(composite)
    ELSE LET gate == gates[k]
             kind == Str(to_lowercase(gate.name))
         IN IF kind \in DOMAIN GateArms
            THEN LET res == assert_nr_args_bits(GateArms[kind][1],
                                                GateArms[kind][2], gate)
                 IN IF res[1] = "Err" THEN res
                    ELSE from_string_build(
                             [composite EXCEPT !.ops =
                                 Append(@, [gate |-> [kind |-> kind,
                                                      args |-> gate.args],
                                            bits |-> gate.bits])],
                             gates, k + 1)
            ELSE Err(ParseError("UnknownGate", gate.name))

\* The outcome of a panic!().
Panic == <<"panic">>

\* Self::new(name, max_bit+1) and the second loop, after the first loop
\* returned `parsed`.  max_bit+1 is an addition of usize: when max_bit is
\* usize::MAX it panics in a build with overflow checks, and wraps to 0 in
\* a build without them.
from_string_new(name, parsed, overflow_checks) ==
    IF parsed[1] = "Err" THEN parsed
    ELSE IF parsed[2][2] = USIZE_MAX /\ overflow_checks THEN Panic
    ELSE from_string_build(
             [name |-> name,
              nr_bits |-> IF parsed[2][2] = USIZE_MAX THEN <<"0">>
                          ELSE usize_succ(parsed[2][2]),
              ops |-> <<>>],
             parsed[2][1], 1)

\* Composite::from_string
from_string(name, desc, overflow_checks) ==
    from_string_new(name,
                    from_string_parse(split_semicolon(desc), 1, <<>>,
                                      <<"0">>),
                    overflow_checks)

-----------------------------------------------------------------------------
\* The session: one LatexExportState, built up by a sequence of calls.

Self == [nr_qbits |-> nr_qbits, nr_cbits |-> nr_cbits,
         add_init |-> add_init,
         matrix |-> matrix, in_use |-> in_use,
         loops |-> loops, open_loops |-> open_loops, panicked |-> panicked,
         touched |-> touched, started |-> started]

\* The sessions explored: <<nr_qbits, nr_cbits>>.
Sizes == {<<2, 1>>, <<1, 2>>, <<3, 0>>}

Rows == 0..(nr_qbits + nr_cbits - 1)
QBits == 0..(nr_qbits - 1)
CBits == 0..(nr_cbits - 1)
QbitSets == SUBSET QBits
CbitArgs == {None} \cup {Some(S) : S \in (SUBSET CBits) \ {{}}}
Contents == {"\\gate{X}"}
Bases == {None, Some("X")}
Counts == {3, 23}
CdsCounts == {1}
\* Control registers: sequences of distinct classical bits.
Controls == {<<>>} \cup {<<c>> : c \in CBits}
            \cup {s \in CBits \X CBits : s[1] # s[2]}
Targets(control) == 0..(2 ^ Len(control) - 1)

\* Rows covered by a range-based call on these bits.
RangeOf(bits) == IF bits = {} THEN {} ELSE Min(bits)..Max(bits)

\* No call is on record.
Idle == [op |-> "idle"]

(***************************************************************************)
(* One call, in a session of at most `bound` calls: the session moves to   *)
(* `next`.  The last call of a session is the one observed: `last` records *)
(* it and `prev` the state it was made in.  In a tracking session the      *)
(* history variable `reserved` holds the                                   *)
(* rows covered by a reserve, reserve_range or reserve_all since the last  *)
(* write to that row by set_field; `rsv` is its value after this call.     *)
(***************************************************************************)
CallWithin(bound, next, rsv, call) ==
    /\ ~panicked
    /\ nr_calls < bound
    /\ nr_calls' = nr_calls + 1
    /\ nr_qbits' = next.nr_qbits
    /\ nr_cbits' = next.nr_cbits
    /\ add_init' = next.add_init
    /\ matrix' = next.matrix
    /\ in_use' = next.in_use
    /\ loops' = next.loops
    /\ open_loops' = next.open_loops
    /\ panicked' = next.panicked
    /\ touched' = next.touched
    /\ started' = next.started
    /\ tracking' = tracking
    /\ reserved' = IF tracking THEN rsv ELSE reserved
    /\ IF nr_calls + 1 = bound
       THEN /\ prev' = Some([matrix |-> matrix, in_use |-> in_use,
                             loops |-> loops, open_loops |-> open_loops,
                             reserved |-> reserved])
            /\ last' = call
       ELSE /\ prev' = None
            /\ last' = Idle
    /\ UNCHANGED <<input, output>>

Call(next, rsv, call) == CallWithin(MaxCalls, next, rsv, call)

New(track) ==
    /\ \E sz \in Sizes :
          /\ nr_qbits = new(sz[1], sz[2]).nr_qbits
          /\ nr_cbits = new(sz[1], sz[2]).nr_cbits
          /\ add_init = new(sz[1], sz[2]).add_init
          /\ matrix = new(sz[1], sz[2]).matrix
          /\ in_use = new(sz[1], sz[2]).in_use
          /\ loops = new(sz[1], sz[2]).loops
          /\ open_loops = new(sz[1], sz[2]).open_loops
          /\ panicked = new(sz[1], sz[2]).panicked
          /\ touched = new(sz[1], sz[2]).touched
          /\ started = new(sz[1], sz[2]).started
    /\ tracking = track
    /\ reserved = {}
    /\ prev = None
    /\ last = Idle
    /\ nr_calls = 0
    /\ input = None
    /\ output = None

Init == New(FALSE)

InitTracking == New(TRUE)

AddColumn ==
    Call(add_column(Self), reserved, [op |-> "add_column"])

Reserve ==
    \E qbits \in QbitSets, cbits \in CbitArgs :
        Call(reserve(Self, qbits, cbits),
             reserved \cup merged_bits(Self, qbits, cbits),
             [op |-> "reserve", qbits |-> qbits, cbits |-> cbits])

ReserveRange ==
    \E qbits \in QbitSets, cbits \in CbitArgs :
        Call(reserve_range(Self, qbits, cbits),
             reserved \cup RangeOf(merged_bits(Self, qbits, cbits)),
             [op |-> "reserve_range", qbits |-> qbits, cbits |-> cbits])

ReserveAll ==
    Call(reserve_all(Self), Rows, [op |-> "reserve_all"])

ClaimRange ==
    \E qbits \in QbitSets, cbits \in CbitArgs :
        Call(claim_range(Self, qbits, cbits), reserved,
             [op |-> "claim_range", qbits |-> qbits, cbits |-> cbits])

SetField ==
    \E bit \in Rows, contents \in Contents :
        Call(set_field(Self, bit, contents), reserved \ {bit},
             [op |-> "set_field", bit |-> bit, contents |-> contents])

\* reserve_range over [qbit, nr_qbits + cbit], then a write to both ends.
SetMeasurement ==
    \E qbit \in QBits, cbit \in CBits, basis \in Bases :
        Call(set_measurement(Self, qbit, cbit, basis),
             (reserved \cup (qbit..(nr_qbits + cbit)))
                 \ {qbit, nr_qbits + cbit},
             [op |-> "set_measurement", qbit |-> qbit, cbit |-> cbit,
              basis |-> basis])

\* reserve of qbit, then a write to it.
SetReset ==
    \E qbit \in QBits :
        Call(set_reset(Self, qbit), reserved \ {qbit},
             [op |-> "set_reset", qbit |-> qbit])

\* Writes to the rows of the control bits, unless qbits is empty.
SetCondition ==
    \E control \in Controls, qbits \in QbitSets :
        \E target \in Targets(control) :
            Call(set_condition(Self, control, target, qbits),
                 IF qbits = {} THEN reserved
                 ELSE reserved \ {nr_qbits + control[i] :
                                     i \in 1..Len(control)},
                 [op |-> "set_condition", control |-> control,
                  target |-> target, qbits |-> qbits])

StartLoop ==
    \E count \in Counts :
        Call(start_loop(Self, count), Rows,
             [op |-> "start_loop", count |-> count])

EndLoop ==
    Call(end_loop(Self),
         IF open_loops # <<>> THEN Rows ELSE reserved,
         [op |-> "end_loop"])

\* The write is followed by a reserve_all.
AddCds ==
    \E bit \in QBits, count \in CdsCounts :
        Call(add_cds(Self, bit, count, "\\cdots"), Rows,
             [op |-> "add_cds", bit |-> bit, count |-> count])

\* Writes to the first row of every range.
SetBarrier ==
    \E qbits \in QbitSets :
        Call(set_barrier(Self, qbits),
             reserved \ {get_ranges(qbits)[i][1] :
                            i \in 1..Len(get_ranges(qbits))},
             [op |-> "set_barrier", qbits |-> qbits])

Next ==
    \/ AddColumn
    \/ Reserve
    \/ ReserveRange
    \/ ReserveAll
    \/ ClaimRange
    \/ SetField
    \/ SetMeasurement
    \/ SetReset
    \/ SetCondition
    \/ StartLoop
    \/ EndLoop
    \/ AddCds
    \/ SetBarrier

Spec == Init /\ [][Next]_vars

\* Sessions of the grid operations and the two markers built on a
\* reservation, with the history variable `reserved` kept.
NextGrid ==
    \/ AddColumn
    \/ Reserve
    \/ ReserveRange
    \/ ReserveAll
    \/ ClaimRange
    \/ SetField
    \/ SetMeasurement
    \/ SetReset

SpecGrid == InitTracking /\ [][NextGrid]_vars

\* Sessions that end in a rendering: writes, measurements, loops and the
\* add_init switch, long enough for a loop to be opened and closed inside
\* another one that has content before it.
RenderCall(next, call) == CallWithin(MaxRenderCalls, next, reserved, call)

RenderSetField ==
    \E bit \in Rows, contents \in Contents :
        RenderCall(set_field(Self, bit, contents),
                   [op |-> "set_field", bit |-> bit, contents |-> contents])

RenderSetMeasurement ==
    \E qbit \in QBits, cbit \in CBits :
        RenderCall(set_measurement(Self, qbit, cbit, None),
                   [op |-> "set_measurement", qbit |-> qbit, cbit |-> cbit,
                    basis |-> None])

RenderStartLoop ==
    \E count \in Counts :
        RenderCall(start_loop(Self, count),
                   [op |-> "start_loop", count |-> count])

RenderEndLoop ==
    RenderCall(end_loop(Self), [op |-> "end_loop"])

RenderSetAddInit ==
    \E init \in BOOLEAN :
        RenderCall(set_add_init(Self, init),
                   [op |-> "set_add_init", init |-> init])

NextRender ==
    \/ RenderSetField
    \/ RenderSetMeasurement
    \/ RenderStartLoop
    \/ RenderEndLoop
    \/ RenderSetAddInit

SpecRender == Init /\ [][NextRender]_vars

\* Sessions of a circuit that draws gates: plain gates and static loops
\* through latex_checked, static loops through Loop::latex, measurements.
Iterations == {0, 1, 2, 3}

GateCall(next, call) == CallWithin(MaxGateCalls, next, reserved, call)

GateLatexChecked ==
    \E bits \in QbitSets, contents \in Contents :
        GateCall(latex_checked(Self, bits, contents),
                 [op |-> "latex_checked", bits |-> bits,
                  contents |-> contents])

LoopLatex ==
    \E n \in Iterations, bits \in QbitSets, contents \in Contents :
        GateCall(Loop_latex(Self, n, bits, contents),
                 [op |-> "Loop::latex", nr_iterations |-> n, bits |-> bits,
                  contents |-> contents])

\* Loop does not override latex_checked: reserve, then Loop::latex.
LoopLatexChecked ==
    \E n \in Iterations, bits \in QbitSets, contents \in Contents :
        GateCall(Loop_latex(reserve(Self, bits, None), n, bits, contents),
                 [op |-> "Loop::latex_checked", nr_iterations |-> n,
                  bits |-> bits, contents |-> contents])

GateSetMeasurement ==
    \E qbit \in QBits, cbit \in CBits :
        GateCall(set_measurement(Self, qbit, cbit, None),
                 [op |-> "set_measurement", qbit |-> qbit, cbit |-> cbit,
                  basis |-> None])

NextGate ==
    \/ GateLatexChecked
    \/ LoopLatex
    \/ LoopLatexChecked
    \/ GateSetMeasurement

SpecGate == Init /\ [][NextGate]_vars

\* A pure function applied once: `input` is the call, drawn at the start,
\* and `output` its result once the call has returned.  The export state
\* plays no part: it is that of LatexExportState::new(0, 0).
Pure(calls) ==
    /\ nr_qbits = new(0, 0).nr_qbits
    /\ nr_cbits = new(0, 0).nr_cbits
    /\ add_init = new(0, 0).add_init
    /\ matrix = new(0, 0).matrix
    /\ in_use = new(0, 0).in_use
    /\ loops = new(0, 0).loops
    /\ open_loops = new(0, 0).open_loops
    /\ panicked = new(0, 0).panicked
    /\ touched = new(0, 0).touched
    /\ started = new(0, 0).started
    /\ tracking = FALSE
    /\ reserved = {}
    /\ prev = None
    /\ last = Idle
    /\ nr_calls = 0
    /\ input \in calls
    /\ output = None

Returns(op, result) ==
    /\ input.op = op
    /\ output = None
    /\ output' = Some(result)
    /\ UNCHANGED <<nr_qbits, nr_cbits, add_init, matrix, in_use, loops,
                   open_loops, panicked, touched, started, tracking,
                   reserved, prev, last, nr_calls, input>>

\* The instruction text of static loops.
QasmGates == {[kind |-> "T"], [kind |-> "Tdg"],
              [kind |-> "RY", theta |-> 225], [kind |-> "RZ", lambda |-> 150]}
QasmOps == {[gate |-> g, bits |-> <<b>>] : g \in QasmGates, b \in {0, 1}}
RECURSIVE OpsUpTo(_)
OpsUpTo(n) ==
    IF n = 0 THEN {<<>>}
    ELSE OpsUpTo(n - 1)
         \cup {Append(ops, op) : ops \in {o \in OpsUpTo(n - 1) :
                                            Len(o) = n - 1},
                                 op \in QasmOps}
Bodies == {[name |-> "body", nr_bits |-> 2, ops |-> ops] :
              ops \in OpsUpTo(MaxOps)}
Loops == {[label |-> "myloop", nr_iterations |-> n, body |-> body] :
             n \in 0..MaxIterations, body \in Bodies}
BitNames == <<"qb0", "qb1">>
BitLists == {<<0, 1>>, <<1, 0>>}
Conditions == {"b == 0"}
QasmCalls ==
    {[op |-> op, self |-> l, condition |-> c, bit_names |-> BitNames,
      bits |-> bits] :
        op \in {"open_qasm", "conditional_open_qasm", "conditional_c_qasm"},
        l \in Loops, c \in Conditions, bits \in BitLists}

InitQasm == Pure(QasmCalls)

LoopOpenQasm ==
    Returns("open_qasm",
            Loop_open_qasm(input.self, input.bit_names, input.bits))

LoopConditionalOpenQasm ==
    Returns("conditional_open_qasm",
            Loop_conditional_open_qasm(input.self, input.condition,
                                       input.bit_names, input.bits))

LoopConditionalCQasm ==
    Returns("conditional_c_qasm",
            Loop_conditional_c_qasm(input.self, input.condition,
                                    input.bit_names, input.bits))

NextQasm ==
    \/ LoopOpenQasm
    \/ LoopConditionalOpenQasm
    \/ LoopConditionalCQasm

SpecQasm == InitQasm /\ [][NextQasm]_vars

\* Composite::from_string, on descriptions of up to MaxParts parts.  The
\* parts are those of tests::test_from_string_errors, parts with more than
\* one defect, and a bit number equal to usize::MAX.  In order:
\*  "H 0"  "CX 0 1"  "RX(1.2) 1"  "XYZ 0"  " 0"  "RX(1.2, 3.4) 1"  "H 0 1"
\*  "RX(1.2a) 1"  " X"  "H 117356715625188271521875"  "H 0 and"
\*  "H 18446744073709551615"  "H(1) 0 1"  ""  "RX(1.2a)"  "XYZ 0 and"
\*  "(1) 0"  "H and"
PartTexts ==
    <<<<"H", " ", "0">>,
      <<"C", "X", " ", "0", " ", "1">>,
      <<"R", "X", "(", "1", ".", "2", ")", " ", "1">>,
      <<"X", "Y", "Z", " ", "0">>,
      <<" ", "0">>,
      <<"R", "X", "(", "1", ".", "2", ",", " ", "3", ".", "4", ")", " ", "1">>,
      <<"H", " ", "0", " ", "1">>,
      <<"R", "X", "(", "1", ".", "2", "a", ")", " ", "1">>,
      <<" ", "X">>,
      <<"H", " ", "1", "1", "7", "3", "5", "6", "7", "1", "5", "6", "2",
        "5", "1", "8", "8", "2", "7", "1", "5", "2", "1", "8", "7", "5">>,
      <<"H", " ", "0", " ", "a", "n", "d">>,
      <<"H", " ", "1", "8", "4", "4", "6", "7", "4", "4", "0", "7", "3",
        "7", "0", "9", "5", "5", "1", "6", "1", "5">>,
      <<"H", "(", "1", ")", " ", "0", " ", "1">>,
      <<>>,
      <<"R", "X", "(", "1", ".", "2", "a", ")">>,
      <<"X", "Y", "Z", " ", "0", " ", "a", "n", "d">>,
      <<"(", "1", ")", " ", "0">>,
      <<"H", " ", "a", "n", "d">>>>
Semicolon == <<";">>
RECURSIVE DescsUpTo(_)
DescsUpTo(n) ==
    IF n = 0 THEN {<<>>}
    ELSE DescsUpTo(n - 1)
         \cup {Append(d, p) : d \in {e \in DescsUpTo(n - 1) :
                                       Len(e) = n - 1},
                              p \in 1..Len(PartTexts)}
\* The description made of the parts numbered in d.
RECURSIVE JoinParts(_)
JoinParts(d) ==
    IF Len(d) = 1 THEN PartTexts[d[1]]
    ELSE PartTexts[d[1]] \o Semicolon \o JoinParts(Tail(d))
ParseCalls ==
    {[op |-> "from_string", name |-> "XXX", parts |-> d,
      desc |-> JoinParts(d)] : d \in DescsUpTo(MaxParts) \ {<<>>}}

InitParse == Pure(ParseCalls)

FromString ==
    \E overflow_checks \in BOOLEAN :
        Returns("from_string",
                from_string(input.name, input.desc, overflow_checks))

NextParse == FromString

SpecParse == InitParse /\ [][NextParse]_vars

-----------------------------------------------------------------------------
\* Vocabulary of the properties.  They are stated of the observed call: the
\* state it was made in (Pre), the call (last) and the state it left.

Pre == prev[1]
Observed(op) == last.op = op

NrCols == Len(matrix)
LastCol == matrix[Len(matrix)]
EmptyColumn == [b \in Rows |-> None]
AllFree == [b \in Rows |-> FALSE]

\* The rows a call names: quantum bit q is row q, classical bit c is row Q+c.
Named(qbits, cbits) ==
    {q : q \in qbits}
    \cup (IF cbits = None THEN {} ELSE {nr_qbits + c : c \in cbits[1]})
NamedRows == Named(last.qbits, last.cbits)
NamedRange == {b \in Rows : \E lo, hi \in NamedRows : lo <= b /\ b <= hi}

\* The observed call appended exactly one column, empty and unoccupied.
AppendedOne ==
    /\ matrix = Append(Pre.matrix, EmptyColumn)
    /\ in_use = AllFree
\* The observed call left the matrix and the occupancy vector as they were.
GridUnchanged ==
    /\ matrix = Pre.matrix
    /\ in_use = Pre.in_use
LoopsUnchanged ==
    /\ loops = Pre.loops
    /\ open_loops = Pre.open_loops

\* Cell (column i, row b) held content before the observed call.
HeldBefore(i, b) == i <= Len(Pre.matrix) /\ Pre.matrix[i][b] # None

-----------------------------------------------------------------------------
\* C1: a write to a row that was reserved since the last write to that row
\* never overwrites content, and lands in a column strictly after every
\* column that already holds content on that row; calls that write only
\* after their own reservation overwrite nothing either.
C1_ReserveBeforeWrite ==
    /\ (Observed("set_field") /\ last.bit \in Pre.reserved) =>
          /\ ~HeldBefore(NrCols, last.bit)
          /\ \A i \in 1..Len(Pre.matrix) :
                HeldBefore(i, last.bit) => i < NrCols
    /\ (last # Idle /\ (Observed("set_field") => last.bit \in Pre.reserved)) =>
          \A i \in 1..Len(Pre.matrix) : \A b \in Rows :
              HeldBefore(i, b) => matrix[i][b] = Pre.matrix[i][b]

\* A reserved row that already holds content is written again, in a later
\* column.
C1_Witness ==
    /\ Observed("set_field")
    /\ last.bit \in Pre.reserved
    /\ \E i \in 1..(NrCols - 1) : HeldBefore(i, last.bit)
    /\ LastCol[last.bit] = Some(last.contents)

\* C2: every column has exactly Q+C cells and the occupancy vector exactly
\* Q+C flags, after any sequence of calls.
C2_ColumnWidth ==
    /\ \A i \in 1..NrCols :
          /\ DOMAIN matrix[i] = Rows
          /\ Cardinality(DOMAIN matrix[i]) = nr_qbits + nr_cbits
    /\ DOMAIN in_use = Rows
    /\ Cardinality(DOMAIN in_use) = nr_qbits + nr_cbits

\* Three calls have been made, the last a measurement, and there are at
\* least two columns.
C2_Witness ==
    /\ Observed("set_measurement")
    /\ nr_calls = MaxCalls
    /\ NrCols >= 2

\* C3: once there is a column, row b is flagged exactly if set_field wrote
\* it or claim_range covered it since the last column was appended; so a
\* non-empty cell of the last column is flagged, and a call that only
\* appends a column leaves every flag false.
C3_Occupancy ==
    /\ matrix # <<>> =>
          /\ \A b \in Rows : in_use[b] <=> b \in touched
          /\ \A b \in Rows : LastCol[b] # None => in_use[b]
    /\ (/\ \/ Observed("add_column")
           \/ Observed("reserve")
           \/ Observed("reserve_range")
           \/ Observed("reserve_all")
        /\ NrCols > Len(Pre.matrix)) =>
          \A b \in Rows : ~in_use[b]

\* After a claim_range the last column has a flagged row without content, a
\* flagged row with content and a row that is not flagged.
C3_Witness ==
    /\ Observed("claim_range")
    /\ matrix # <<>>
    /\ \E b \in Rows : in_use[b] /\ LastCol[b] = None
    /\ \E b \in Rows : in_use[b] /\ LastCol[b] # None
    /\ \E b \in Rows : ~in_use[b]

\* C4: reserve appends exactly one column if a named row is occupied and
\* otherwise changes neither matrix nor occupancy, whatever the other rows.
C4_Reserve ==
    Observed("reserve") =>
        IF \E b \in NamedRows : Pre.in_use[b]
        THEN AppendedOne
        ELSE GridUnchanged

\* reserve names two free rows around an occupied one and appends nothing.
C4_Witness ==
    /\ Observed("reserve")
    /\ matrix # <<>>
    /\ \E lo, mid, hi \in Rows :
          /\ lo < mid /\ mid < hi
          /\ lo \in NamedRows /\ hi \in NamedRows /\ mid \notin NamedRows
          /\ Pre.in_use[mid]
    /\ GridUnchanged

\* C5: reserve_range on a non-empty bit set appends exactly one column if
\* some row between the lowest and the highest named row (inclusive) is
\* occupied, and otherwise changes neither matrix nor occupancy.
C5_ReserveRange ==
    (Observed("reserve_range") /\ NamedRows # {}) =>
        IF \E b \in NamedRange : Pre.in_use[b]
        THEN AppendedOne
        ELSE GridUnchanged

\* reserve_range names free rows only, a row between them is occupied, and a
\* column is appended to a matrix that already had one.
C5_Witness ==
    /\ Observed("reserve_range")
    /\ Pre.matrix # <<>>
    /\ \A b \in NamedRows : ~Pre.in_use[b]
    /\ \E b \in NamedRange : Pre.in_use[b]
    /\ AppendedOne

\* C6: reserve_all appends exactly one column if some row is occupied and
\* changes nothing otherwise; a second reserve_all right after it appends
\* nothing.
C6_ReserveAll ==
    Observed("reserve_all") =>
        /\ IF \E b \in Rows : Pre.in_use[b]
           THEN AppendedOne
           ELSE GridUnchanged
        /\ reserve_all(Self).matrix = matrix
        /\ reserve_all(Self).in_use = in_use

\* reserve_all appends a column because of a single occupied row.
C6_Witness ==
    /\ Observed("reserve_all")
    /\ Pre.matrix # <<>>
    /\ Cardinality({b \in Rows : Pre.in_use[b]}) = 1
    /\ AppendedOne

\* C7: claim_range on a non-empty bit set flags every row between the lowest
\* and the highest named row (inclusive) and changes nothing else.
C7_ClaimRange ==
    (Observed("claim_range") /\ NamedRows # {}) =>
        /\ in_use = [b \in Rows |-> (b \in NamedRange) \/ Pre.in_use[b]]
        /\ matrix = Pre.matrix
        /\ LoopsUnchanged
        /\ ~panicked

\* claim_range flags a free row that lies between the named rows and holds no
\* content.
C7_Witness ==
    /\ Observed("claim_range")
    /\ matrix # <<>>
    /\ \E b \in NamedRange \ NamedRows :
          ~Pre.in_use[b] /\ in_use[b] /\ LastCol[b] = None

\* C8: right after a reservation the rows it covers are unoccupied and empty
\* in the last column, and the same reservation made again appends nothing.
C8_ReservedRowsFree ==
    LET Free(S) == \A b \in S :
                      /\ matrix # <<>>
                      /\ ~in_use[b]
                      /\ LastCol[b] = None
    IN /\ Observed("reserve") =>
             /\ Free(NamedRows)
             /\ reserve(Self, last.qbits, last.cbits).matrix = matrix
       /\ Observed("reserve_range") =>
             /\ Free(NamedRange)
             /\ reserve_range(Self, last.qbits, last.cbits).matrix = matrix
       /\ Observed("reserve_all") =>
             /\ Free(Rows)
             /\ reserve_all(Self).matrix = matrix

\* A reserve_range over at least two rows had to append a column.
C8_Witness ==
    /\ Observed("reserve_range")
    /\ Cardinality(NamedRange) >= 2
    /\ \E b \in NamedRange : Pre.in_use[b] /\ Pre.matrix # <<>>
    /\ NrCols = Len(Pre.matrix) + 1

\* C9: reserve_range and claim_range on an empty bit set change nothing and
\* do not fail.
C9_EmptyBits ==
    ((Observed("reserve_range") \/ Observed("claim_range"))
         /\ NamedRows = {}) =>
        /\ GridUnchanged
        /\ LoopsUnchanged
        /\ ~panicked

\* reserve_range on an empty bit set in a session that has no column yet.
C9_Witness ==
    /\ Observed("reserve_range")
    /\ NamedRows = {}
    /\ Pre.matrix = <<>>
    /\ matrix = <<>>

\* C10: set_field appends a column only if there is none; it puts contents
\* in the cell at row bit of the last column, whatever the cell held, flags
\* the row, and leaves all other cells as they were.
C10_SetField ==
    Observed("set_field") =>
        /\ NrCols = (IF Pre.matrix = <<>> THEN 1 ELSE Len(Pre.matrix))
        /\ LastCol[last.bit] = Some(last.contents)
        /\ in_use[last.bit]
        /\ \A b \in Rows \ {last.bit} :
              LastCol[b] = (IF Pre.matrix = <<>> THEN None
                            ELSE Pre.matrix[NrCols][b])
        /\ \A i \in 1..(NrCols - 1) : matrix[i] = Pre.matrix[i]

\* set_field replaces different content in an occupied cell.
C10_Witness ==
    /\ Observed("set_field")
    /\ HeldBefore(NrCols, last.bit)
    /\ Pre.in_use[last.bit]
    /\ Pre.matrix[NrCols][last.bit] # Some(last.contents)
    /\ LastCol[last.bit] = Some(last.contents)

\* C11: columns are append-only and frozen: a call never removes or reorders
\* a column, the number of columns never decreases, and the contents of
\* every column that already had a successor before the call are unchanged.
C11_ColumnsFrozen ==
    last # Idle =>
        /\ NrCols >= Len(Pre.matrix)
        /\ \A i \in 1..(Len(Pre.matrix) - 1) : matrix[i] = Pre.matrix[i]

\* A call writes content while an earlier column already holds content.
C11_Witness ==
    /\ last # Idle
    /\ Len(Pre.matrix) >= 2
    /\ \E b \in Rows : HeldBefore(1, b)
    /\ matrix # Pre.matrix
    /\ \E b \in Rows : LastCol[b] # None
    /\ matrix[1] = Pre.matrix[1]


\* Some cell of the matrix holds content; some cell of column i does.
HasContent == \E i \in 1..NrCols : \E b \in Rows : matrix[i][b] # None
ColumnHasContent(i) == i <= NrCols /\ \E b \in Rows : matrix[i][b] # None

\* C12 as stated: without a column every row is occupied, and the first
\* content written in a session lands in column 0.  Columns keep their
\* content (C11), so the first content is in column 0 exactly if column 0
\* holds content whenever any column does.
C12_FirstContentInColumn0 ==
    /\ matrix = <<>> => \A b \in Rows : in_use[b]
    /\ HasContent => ColumnHasContent(1)

\* C12, amended: without a column every row is occupied; a reserve or
\* reserve_range with a non-empty bit set, a reserve_all or a set_field
\* called while there is no column creates column 0 and no other; and
\* whatever the call that creates column 0 writes lands in column 0.
C12_Bootstrap ==
    /\ matrix = <<>> => \A b \in Rows : in_use[b]
    /\ (last # Idle /\ Pre.matrix = <<>>) =>
          /\ (Observed("reserve") /\ NamedRows # {}) => AppendedOne
          /\ (Observed("reserve_range") /\ NamedRows # {}) => AppendedOne
          /\ Observed("reserve_all") => AppendedOne
          /\ Observed("set_field") =>
                /\ NrCols = 1
                /\ matrix[1][last.bit] = Some(last.contents)
          /\ HasContent => ColumnHasContent(1)

\* After calls that left the session without a column, a measurement
\* creates column 0 and its markers are there.
C12_Witness ==
    /\ Observed("set_measurement")
    /\ nr_calls = MaxCalls
    /\ Pre.matrix = <<>>
    /\ NrCols = 1
    /\ ColumnHasContent(1)


\* A reserve naming row b alone, as a quantum or as a classical bit.
ReserveRow(b) ==
    IF b < nr_qbits THEN reserve(Self, {b}, None)
    ELSE reserve(Self, {}, Some({b - nr_qbits}))

\* The rows of the observed measurement.
MeasuredQ == last.qbit
MeasuredC == nr_qbits + last.cbit

\* C13: set_measurement(q, c, basis) puts the meter marker at row q and the
\* classical-wire marker, with the negative offset q - (Q+c), at row Q+c of
\* the last column; the cells strictly between them in that column are
\* empty; afterwards every row of [q, Q+c] is occupied, so a reserve naming
\* such a row opens a new column.
C13_SetMeasurement ==
    Observed("set_measurement") =>
        /\ LastCol[MeasuredQ] =
              (IF last.basis = None THEN Some("\\meter")
               ELSE Some("\\meterB{" \o last.basis[1] \o "}"))
        /\ MeasuredQ - MeasuredC < 0
        /\ LastCol[MeasuredC] =
              Some("\\cw \\cwx[" \o ToString(MeasuredQ - MeasuredC) \o "]")
        /\ \A b \in (MeasuredQ + 1)..(MeasuredC - 1) : LastCol[b] = None
        /\ \A b \in MeasuredQ..MeasuredC :
              /\ in_use[b]
              /\ Len(ReserveRow(b).matrix) = NrCols + 1

\* A measurement in a basis, over three rows that were all free, goes into
\* the column that was already there.
C13_Witness ==
    /\ Observed("set_measurement")
    /\ last.basis = Some("X")
    /\ MeasuredC - MeasuredQ = 2
    /\ Pre.matrix # <<>>
    /\ NrCols = Len(Pre.matrix)
    /\ LastCol[MeasuredC] = Some("\\cw \\cwx[-2]")


\* The cells that only a measurement writes in these sessions.
MeterMarkers ==
    {Some("\\meter")}
    \cup {Some("\\meterB{" \o b[1] \o "}") : b \in Bases \ {None}}
CwMarkers == {Some("\\cw \\cwx[" \o ToString(0 - k) \o "]") : k \in 1..3}
MeasuredIn(col) ==
    \E b \in DOMAIN col : col[b] \in MeterMarkers \cup CwMarkers

\* C14: no column holds two measurements: a measurement made after an
\* earlier one (whose markers are in some column) is placed in a strictly
\* later column, its range always containing rows Q-1 and Q.
C14_OneMeasurementPerColumn ==
    /\ \A i \in 1..NrCols :
          /\ Cardinality({b \in Rows : matrix[i][b] \in MeterMarkers}) <= 1
          /\ Cardinality({b \in Rows : matrix[i][b] \in CwMarkers}) <= 1
    /\ Observed("set_measurement") =>
          /\ MeasuredQ <= nr_qbits - 1
          /\ nr_qbits <= MeasuredC
          /\ \A i \in 1..Len(Pre.matrix) :
                MeasuredIn(Pre.matrix[i]) => i < NrCols
          /\ LastCol[MeasuredQ] \in MeterMarkers
          /\ LastCol[MeasuredC] \in CwMarkers

\* A gate and a measurement share a column; the next measurement opens a
\* new column.
C14_Witness ==
    /\ Observed("set_measurement")
    /\ nr_calls = MaxCalls
    /\ Pre.matrix # <<>>
    /\ MeasuredIn(Pre.matrix[Len(Pre.matrix)])
    /\ \E b \in Rows : Pre.matrix[Len(Pre.matrix)][b] = Some("\\gate{X}")
    /\ NrCols = Len(Pre.matrix) + 1
    /\ MeasuredIn(LastCol)


ResetMarker == Some("\\push{~\\ket{0}~} \\ar @{|-{}} [0,-1]")

\* C15: set_reset(q) appends a column exactly if row q is occupied, then
\* writes the reset marker at row q of the last column and nothing else: no
\* other cell changes and no other row becomes occupied; on a session
\* without a column the result is one column with the marker on row q only.
C15_SetReset ==
    Observed("set_reset") =>
        LET q == last.qbit
            appended == Pre.in_use[q]
        IN /\ NrCols = Len(Pre.matrix) + (IF appended THEN 1 ELSE 0)
           /\ LastCol[q] = ResetMarker
           /\ in_use[q]
           /\ \A b \in Rows \ {q} :
                 /\ LastCol[b] = (IF appended THEN None
                                  ELSE Pre.matrix[NrCols][b])
                 /\ in_use[b] = (IF appended THEN FALSE ELSE Pre.in_use[b])
           /\ \A i \in 1..(NrCols - 1) :
                 i <= Len(Pre.matrix) /\ matrix[i] = Pre.matrix[i]
           /\ Pre.matrix = <<>> =>
                 matrix = <<[b \in Rows |->
                               IF b = q THEN ResetMarker ELSE None]>>

\* A reset of a free row next to an occupied row that holds content: no
\* column is appended.
C15_Witness ==
    /\ Observed("set_reset")
    /\ Pre.matrix # <<>>
    /\ ~Pre.in_use[last.qbit]
    /\ \E b \in Rows : Pre.in_use[b] /\ HeldBefore(NrCols, b)
    /\ NrCols = Len(Pre.matrix)
    /\ LastCol[last.qbit] = ResetMarker


\* The rows of the control bits of the observed set_condition, and the row
\* the marker at control row r points back to.
ControlRows == {nr_qbits + last.control[i] : i \in 1..Len(last.control)}
PreviousPosition(r) ==
    IF r = Min(ControlRows) THEN Max(last.qbits)
    ELSE Max({x \in ControlRows : x < r})
ConditionRange == RangeOf(last.qbits \cup ControlRows)

\* C16: set_condition with non-empty qbits writes one marker on the row of
\* every control bit; the marker carries the offset from its row to the
\* previous position, which is max(qbits) for the lowest control row and
\* the next lower control row for the others, whatever the order of the
\* control array; afterwards every row of the range covering qbits and the
\* control rows is occupied.
C16_SetCondition ==
    (Observed("set_condition") /\ last.qbits # {}) =>
        /\ \A r \in ControlRows :
              LET offset == ToString(PreviousPosition(r) - r) IN
              /\ matrix # <<>>
              /\ LastCol[r] \in {Some("\\cctrl{" \o offset \o "}"),
                                 Some("\\cctrlo{" \o offset \o "}")}
        /\ NrCols = (IF Pre.matrix = <<>> /\ ControlRows # {} THEN 1
                     ELSE Len(Pre.matrix))
        /\ \A b \in Rows \ ControlRows :
              Pre.matrix # <<>> => LastCol[b] = Pre.matrix[NrCols][b]
        /\ \A b \in ConditionRange : in_use[b]
        /\ \A b \in Rows \ ConditionRange :
              in_use[b] = (IF NrCols > Len(Pre.matrix) THEN FALSE
                           ELSE Pre.in_use[b])

\* A two-bit register given in descending order controls qubit 0: both
\* markers point one row up.
C16_Witness ==
    /\ Observed("set_condition")
    /\ last.qbits = {0}
    /\ last.control = <<1, 0>>
    /\ Pre.matrix # <<>>
    /\ \A r \in ControlRows :
          LastCol[r] \in {Some("\\cctrl{-1}"), Some("\\cctrlo{-1}")}


\* Bit i (from 0) of the target value of the observed set_condition.
TargetBitSet(i) == (last.target \div (2 ^ i)) % 2 = 1

\* C17: the polarity of a control marker follows the position of the control
\* bit in the control array, not the order of the rows: the row of
\* control[i] holds cctrl if bit i of target is 1 and cctrlo if it is 0.
C17_ConditionPolarity ==
    (Observed("set_condition") /\ last.qbits # {}) =>
        \A i \in 0..(Len(last.control) - 1) :
            LET r == nr_qbits + last.control[i + 1]
                offset == ToString(PreviousPosition(r) - r)
            IN LastCol[r] =
                  Some((IF TargetBitSet(i) THEN "\\cctrl" ELSE "\\cctrlo")
                       \o "{" \o offset \o "}")

\* The register <<1, 0>> is compared with 1: classical bit 1, on the lower
\* row, is the least significant bit and gets the controlled-on-1 marker.
C17_Witness ==
    /\ Observed("set_condition")
    /\ last.qbits # {}
    /\ last.control = <<1, 0>>
    /\ last.target = 1
    /\ LastCol[nr_qbits + 1] = Some("\\cctrl{-1}")
    /\ LastCol[nr_qbits] = Some("\\cctrlo{-1}")


\* C18: set_condition with an empty qbits list does nothing, whatever
\* control and target are: no cell is written, no row is claimed, no column
\* is appended.
C18_ConditionWithoutQbits ==
    (Observed("set_condition") /\ last.qbits = {}) =>
        /\ GridUnchanged
        /\ LoopsUnchanged
        /\ ~panicked

\* A two-bit register and a non-zero target, no qbits, in a session whose
\* last column has free rows.
C18_Witness ==
    /\ Observed("set_condition")
    /\ last.qbits = {}
    /\ Len(last.control) = 2
    /\ last.target > 0
    /\ matrix # <<>>
    /\ \E b \in ControlRows : ~in_use[b] /\ LastCol[b] = None


\* The cell a barrier writes for a run spanning k further rows.
BarrierMarker(k) == Some("\\qw \\barrier{" \o ToString(k) \o "}")
BarrierMarkers == {BarrierMarker(k) : k \in 0..(nr_qbits - 1)}

\* C19: set_barrier appends exactly one column, also when the last column is
\* completely unoccupied, and writes only there: the columns that were
\* there keep their place and content, so the barrier markers are in a
\* column strictly after all content written before the call.
C19_BarrierColumn ==
    Observed("set_barrier") =>
        /\ NrCols = Len(Pre.matrix) + 1
        /\ \A i \in 1..Len(Pre.matrix) : matrix[i] = Pre.matrix[i]
        /\ \A b \in Rows : LastCol[b] # None => LastCol[b] \in BarrierMarkers

\* A barrier called when the last column is empty and unoccupied, after
\* content in an earlier column: a further column is appended for the marker.
C19_Witness ==
    /\ Observed("set_barrier")
    /\ Len(Pre.matrix) >= 2
    /\ \A b \in Rows : ~Pre.in_use[b] /\ ~HeldBefore(Len(Pre.matrix), b)
    /\ \E b \in Rows : HeldBefore(1, b)
    /\ NrCols = Len(Pre.matrix) + 1
    /\ \E b \in last.qbits : LastCol[b] \in BarrierMarkers


\* The maximal runs of adjacent indices in the qbits of the observed
\* set_barrier: b starts a run if b - 1 is not in qbits; the run goes on to
\* the last index reached from b without a gap.
RunStarts == {b \in last.qbits : (b - 1) \notin last.qbits}
RunEnd(b) == Max({e \in last.qbits : \A x \in b..e : x \in last.qbits})
RunLength(b) == RunEnd(b) - b + 1

\* C20 as stated: for each maximal run of adjacent indices in qbits,
\* set_barrier writes exactly one marker, at the lowest index of the run,
\* and the number in the marker is the length of the run.
C20_BarrierRunLength ==
    Observed("set_barrier") =>
        /\ \A b \in RunStarts : LastCol[b] = BarrierMarker(RunLength(b))
        /\ \A b \in Rows \ RunStarts : LastCol[b] = None

\* C20, amended: for each maximal run of adjacent indices in qbits,
\* set_barrier writes exactly one marker, at the lowest index of the run,
\* and the number in the marker is the length of the run minus one (the
\* highest index of the run minus the lowest).
C20_BarrierRunSpan ==
    Observed("set_barrier") =>
        /\ \A b \in RunStarts : LastCol[b] = BarrierMarker(RunLength(b) - 1)
        /\ \A b \in Rows \ RunStarts : LastCol[b] = None

\* A barrier over a run of at least two rows, in a session that already had
\* a column.
C20_Witness ==
    /\ Observed("set_barrier")
    /\ Pre.matrix # <<>>
    /\ \E b \in RunStarts :
          /\ RunLength(b) >= 2
          /\ LastCol[b] = BarrierMarker(RunLength(b) - 1)


\* C21: regions are paired as a stack.  start_loop pushes the index of the
\* last column and its count; end_loop with a region open pops the most
\* recently opened region and records (start, end, count), start and count
\* from that start_loop and end the index of the last column at the call;
\* spans stay in the order of closing, and no other call touches either
\* list.
C21_LoopStack ==
    /\ Observed("start_loop") =>
          /\ open_loops = Append(Pre.open_loops, <<NrCols - 1, last.count>>)
          /\ loops = Pre.loops
    /\ (Observed("end_loop") /\ Pre.open_loops # <<>>) =>
          LET n == Len(Pre.open_loops) IN
          /\ open_loops = SubSeq(Pre.open_loops, 1, n - 1)
          /\ loops = Append(Pre.loops,
                            <<Pre.open_loops[n][1], Len(Pre.matrix) - 1,
                              Pre.open_loops[n][2]>>)
          /\ ~panicked
    /\ (last # Idle /\ ~Observed("start_loop") /\ ~Observed("end_loop")) =>
          LoopsUnchanged
    /\ \A k \in 1..Len(open_loops) : open_loops[k][1] < NrCols
    /\ \A k \in 1..Len(loops) :
          loops[k][1] <= loops[k][2] /\ loops[k][2] < NrCols

\* Two regions with different starts and counts are open; end_loop closes
\* the inner one, records its span and leaves the outer one open.
C21_Witness ==
    /\ Observed("end_loop")
    /\ Len(Pre.open_loops) = 2
    /\ Pre.open_loops[1][1] < Pre.open_loops[2][1]
    /\ Pre.open_loops[1][2] # Pre.open_loops[2][2]
    /\ open_loops = <<Pre.open_loops[1]>>
    /\ Len(loops) = 1
    /\ loops[1][1] = Pre.open_loops[2][1]
    /\ loops[1][3] = Pre.open_loops[2][2]


\* C22: end_loop panics whenever no region is open, in a session that never
\* opened one and after any balanced sequence of starts and ends, and then
\* records no span.
C22_EndLoopPanic ==
    (Observed("end_loop") /\ Pre.open_loops = <<>>) =>
        /\ panicked
        /\ loops = Pre.loops
        /\ open_loops = <<>>
        /\ GridUnchanged

\* end_loop after two regions were opened and closed.
C22_Witness ==
    /\ Observed("end_loop")
    /\ Pre.open_loops = <<>>
    /\ Len(Pre.loops) = 2
    /\ panicked
    /\ Len(loops) = 2


\* C23: after end_loop has recorded the span (start, end, count), every cell
\* written by a later call lies in a column with an index greater than end:
\* a call leaves the columns 0..end of every span recorded before it as
\* they were.
C23_ContentAfterRegion ==
    last # Idle =>
        \A k \in 1..Len(Pre.loops) :
            \A i \in 1..(Pre.loops[k][2] + 1) :
                i <= Len(Pre.matrix) /\ matrix[i] = Pre.matrix[i]


\* C24: start_loop records as region start the index of the last column,
\* which at that moment is completely empty and unoccupied, so every cell
\* written before the call lies in a column before the recorded start.
C24_LoopStart ==
    Observed("start_loop") =>
        LET start == open_loops[Len(open_loops)][1] IN
        /\ start = NrCols - 1
        /\ LastCol = EmptyColumn
        /\ in_use = AllFree
        /\ \A i \in 1..Len(Pre.matrix) : \A b \in Rows :
              HeldBefore(i, b) => i - 1 < start

\* start_loop after content in the last column: a column is appended and
\* its index recorded.
C24_Witness ==
    /\ Observed("start_loop")
    /\ Pre.matrix # <<>>
    /\ \E b \in Rows : HeldBefore(Len(Pre.matrix), b)
    /\ NrCols = Len(Pre.matrix) + 1
    /\ open_loops[Len(open_loops)] = <<Len(Pre.matrix), last.count>>


\* C25: add_cds puts the label alone in its column: that column, the last
\* but one after the call, holds the label at row bit and nothing else,
\* held nothing before the call, and is followed by a new column that is
\* completely empty and unoccupied.
C25_AddCds ==
    Observed("add_cds") =>
        LET lc == NrCols - 1 IN
        /\ lc >= 1
        /\ NrCols > Len(Pre.matrix)
        /\ LastCol = EmptyColumn
        /\ in_use = AllFree
        /\ matrix[lc] =
              [b \in Rows |->
                  IF b = last.bit
                  THEN Some("\\cds{" \o ToString(last.count) \o "}{\\cdots}")
                  ELSE None]
        /\ lc <= Len(Pre.matrix) => Pre.matrix[lc] = EmptyColumn
        /\ \A i \in 1..Len(Pre.matrix) : i # lc => matrix[i] = Pre.matrix[i]

\* add_cds after content in the last column: two columns are appended, one
\* for the label and an empty one.
C25_Witness ==
    /\ Observed("add_cds")
    /\ Pre.matrix # <<>>
    /\ \E b \in Rows : HeldBefore(Len(Pre.matrix), b)
    /\ NrCols = Len(Pre.matrix) + 2
    /\ matrix[NrCols - 1][last.bit] = Some("\\cds{1}{\\cdots}")


\* The number of cells code() writes on every row line.
CellsPerRow == NrCols + (IF \E b \in Rows : in_use[b] THEN 1 ELSE 0)
\* The row lines of code(), in row order.
RECURSIVE RowLines(_)
RowLines(i) ==
    IF i >= nr_qbits + nr_cbits THEN ""
    ELSE code_row(Self, i) \o RowLines(i + 1)

\* C26: code() emits, after the header lines and before the footer, exactly
\* Q+C row lines in row order, each with one cell per column in column
\* order and one more default-wire cell exactly if some occupancy flag is
\* true, so that all row lines have the same number of cells.
C26_RowLines ==
    /\ code(Self) # None
    /\ code(Self) = Some("\\Qcircuit @C=1em @R=.7em {\n"
                         \o code_header(Self)[1] \o RowLines(0) \o "}\n")
    /\ \A i \in Rows :
          /\ Len(code_cells(Self, i)) = CellsPerRow
          /\ (\E b \in Rows : in_use[b]) =>
                code_cells(Self, i)[CellsPerRow] =
                    (IF i < nr_qbits THEN "\\qw" ELSE "\\cw")


\* C27: code() renders each cell from the kind of its row and the cell
\* alone: a cell with content as the content itself, an empty cell as \qw
\* on a row below Q and as \cw on the other rows, whatever the other cells
\* and the occupancy flags are.
C27_CellRendering ==
    \A i \in Rows : \A k \in 1..NrCols :
        code_cells(Self, i)[k] =
            (IF matrix[k][i] # None THEN matrix[k][i][1]
             ELSE IF i < nr_qbits THEN "\\qw"
             ELSE "\\cw")

\* A rendering with a content cell, an empty quantum cell and an empty
\* classical cell, some of them on occupied rows and some on free rows.
C27_Witness ==
    /\ NrCols >= 2
    /\ nr_calls = MaxRenderCalls
    /\ \E i \in Rows, k \in 1..NrCols : matrix[k][i] = Some("\\meter")
    /\ \E i \in Rows, k \in 1..NrCols :
          i < nr_qbits /\ matrix[k][i] = None /\ in_use[i]
    /\ \E i \in Rows, k \in 1..NrCols :
          i >= nr_qbits /\ matrix[k][i] = None /\ ~in_use[i]
    /\ code(Self) # None


\* The braces expected on the bracket line for the spans from index k on,
\* each after the cell separators that move it to its start column.
RECURSIVE ExpectedBraces(_, _)
ExpectedBraces(k, prev_idx) ==
    IF k > Len(loops) THEN ""
    ELSE LET s == ToString(loops[k][1] + 2)
             e == ToString(loops[k][2] + 2)
         IN repeat("& ", loops[k][1] - prev_idx)
            \o "\\mbox{} \\POS\"2," \o s \o "\".\"2," \o s
            \o "\".\"2," \o e \o "\".\"2," \o e
            \o "\"!C*+<.7em>\\frm{^\\}},+U*++!D{"
            \o ToString(loops[k][3]) \o "\\times}"
            \o ExpectedBraces(k + 1, loops[k][1])

\* C28: code() emits the bracket line and the filler line exactly if a span
\* has been recorded; the bracket line holds one brace per span in
\* recording order, with the span's start + 2, end + 2 and count, and the
\* filler line one cell separator per column.
C28_BracketLines ==
    /\ code_header(Self) # None
    /\ loops = <<>> <=> code_header(Self) = Some("")
    /\ loops # <<>> =>
          code_header(Self) =
              Some("    & " \o ExpectedBraces(1, 0) \o "\\\\\n"
                   \o "    " \o repeat("& ", NrCols) \o "\\\\\n")


\* C29: closing a region that was never opened is the only failure: no call
\* other than end_loop without an open region panics, and code() returns
\* text in every reachable state, also when a region was opened and closed
\* inside another one.
C29_OnlyFailure ==
    /\ (last # Idle /\ panicked) =>
          (Observed("end_loop") /\ Pre.open_loops = <<>>)
    /\ code(Self) # None


\* C30: set_add_init(false) changes only the leading label of each rendered
\* row, which becomes empty: matrix, occupancy and loop records are
\* unchanged, and code() has the same header lines, the same number of rows
\* and the same cells in every row as with the labels.
C30_SetAddInit ==
    Observed("set_add_init") =>
        /\ add_init = last.init
        /\ GridUnchanged
        /\ LoopsUnchanged
        /\ ~panicked
        /\ \A i \in Rows :
              /\ code_cells(Self, i) =
                    code_cells(set_add_init(Self, TRUE), i)
              /\ code_lstick(Self, i) =
                    (IF last.init
                     THEN (IF i < nr_qbits THEN "    \\lstick{\\ket{0}}"
                           ELSE "    \\lstick{0}")
                     ELSE "    ")
        /\ code_header(Self) = code_header(set_add_init(Self, TRUE))
        /\ (code(Self) = None) <=> (code(set_add_init(Self, TRUE)) = None)

\* Labels are switched off after a measurement into the only column; the
\* row of the measured quantum bit is rendered without label.
C30_Witness ==
    /\ Observed("set_add_init")
    /\ ~last.init
    /\ \E i \in Rows : matrix # <<>> /\ LastCol[i] = Some("\\meter")
    /\ code(Self) # None
    /\ code(set_add_init(Self, TRUE)) # code(Self)
    /\ \E i \in Rows : code_row(Self, i) = "     & \\meter & \\qw \\\\\n"



-----------------------------------------------------------------------------
\* The default latex_checked appended a column: some row in bits was in use.
CheckedAppended == \E b \in last.bits : Pre.in_use[b]
\* The column that the reservation of the observed call left as last.
ReservedColumn ==
    IF CheckedAppended THEN EmptyColumn ELSE Pre.matrix[Len(Pre.matrix)]

-----------------------------------------------------------------------------
\* The texts in seq, in order, with sep between every two of them.
RECURSIVE Joined(_, _)
Joined(seq, sep) ==
    IF Len(seq) = 1 THEN seq[1]
    ELSE seq[1] \o sep \o Joined(Tail(seq), sep)
\* The OpenQasm text of the body of the loop called.
BodyText ==
    Composite_open_qasm(input.self.body, input.bit_names, input.bits)

\* C32: Loop::open_qasm returns the empty string when nr_iterations is 0,
\* and otherwise nr_iterations copies of the body's OpenQasm text, joined
\* by nr_iterations - 1 separators ";\n": its length is that of the copies
\* and the separators together, so nothing leads or trails.
C32_LoopOpenQasm ==
    (input.op = "open_qasm" /\ output # None) =>
        LET n == input.self.nr_iterations IN
        /\ n = 0 => output[1] = ""
        /\ n > 0 =>
              /\ output[1] = Joined([i \in 1..n |-> BodyText], ";\n")
              /\ Len(output[1]) = n * Len(BodyText) + (n - 1) * Len(";\n")

\* The loop of tests::test_open_qasm in miniature: three iterations of a
\* body of two gates.
C32_Witness ==
    /\ input.op = "open_qasm"
    /\ input.self.nr_iterations = 3
    /\ input.bits = <<1, 0>>
    /\ output = Some("t qb1; rz(1.5) qb0;\nt qb1; rz(1.5) qb0;\nt qb1; rz(1.5) qb0")


-----------------------------------------------------------------------------
\* C33: the conditional export of a static loop always fails: whatever the
\* condition, the bit names, the bits, the number of iterations (0
\* included) and the body, Loop::conditional_open_qasm and
\* Loop::conditional_c_qasm return Err, never an instruction string.
C33_ConditionalLoopFails ==
    (input.op \in {"conditional_open_qasm", "conditional_c_qasm"}
     /\ output # None) =>
        /\ output[1][1] = "Err"
        /\ output[1] # Ok(output[1][2])

\* A loop of zero iterations with an empty body, for which the
\* unconditional text is empty, is refused as well.
C33_Witness ==
    /\ input.op = "conditional_open_qasm"
    /\ input.self.nr_iterations = 0
    /\ input.self.body.ops = <<>>
    /\ output # None
    /\ output[1][1] = "Err"


-----------------------------------------------------------------------------
\* What is wrong with each part of PartTexts, by inspection of its text.
PartDefects ==
    <<{},
      {},
      {},
      {"UnknownGate"},
      {"NoGateName"},
      {"InvalidNrArguments"},
      {"InvalidNrBits"},
      {"InvalidArgument"},
      {"NoBits"},
      {"InvalidBit"},
      {"TrailingText"},
      {},
      {"InvalidNrArguments", "InvalidNrBits"},
      {"NoGateName"},
      {"InvalidArgument", "NoBits"},
      {"TrailingText", "UnknownGate"},
      {"NoGateName"},
      {"NoBits", "TrailingText"}>>
SyntaxChecks ==
    <<"NoGateName", "InvalidArgument", "InvalidBit", "NoBits",
      "TrailingText">>
GateChecks == <<"UnknownGate", "InvalidNrArguments", "InvalidNrBits">>
\* The defects among `checks` of part k of the description parsed, and the
\* first of them in the order of `checks`.
DefectsIn(k, checks) ==
    {checks[i] : i \in 1..Len(checks)} \cap PartDefects[input.parts[k]]
FirstDefect(k, checks) ==
    checks[CHOOSE i \in 1..Len(checks) :
              /\ checks[i] \in PartDefects[input.parts[k]]
              /\ \A j \in 1..(i - 1) :
                    checks[j] \notin PartDefects[input.parts[k]]]
\* The leftmost part with a defect among `checks`.
FirstPart(checks) ==
    CHOOSE k \in 1..Len(input.parts) :
        /\ DefectsIn(k, checks) # {}
        /\ \A j \in 1..(k - 1) : DefectsIn(j, checks) = {}
\* The error that the description parsed must be refused with.
ExpectedError ==
    IF \E k \in 1..Len(input.parts) : DefectsIn(k, SyntaxChecks) # {}
    THEN FirstDefect(FirstPart(SyntaxChecks), SyntaxChecks)
    ELSE FirstDefect(FirstPart(GateChecks), GateChecks)
Defective == \E k \in 1..Len(input.parts) : PartDefects[input.parts[k]] # {}

\* C34: Composite::from_string returns Ok only when every part is a
\* well-formed description of a known gate with the right number of
\* arguments and bits, and then the composite has one operation per part;
\* otherwise it returns the error of the first failing check: the syntax of
\* all parts is checked left to right (NoGateName, InvalidArgument,
\* InvalidBit or NoBits, TrailingText) before any gate name or arity
\* (UnknownGate, then InvalidNrArguments, then InvalidNrBits).
C34_FromString ==
    (input.op = "from_string" /\ output # None) =>
        /\ output[1][1] = "Ok" =>
              /\ ~Defective
              /\ Len(output[1][2].ops) = Len(input.parts)
        /\ Defective =>
              /\ output[1][1] = "Err"
              /\ output[1][2][1] = ExpectedError


-----------------------------------------------------------------------------
\* Column i of the source (matrix[i + 1]) holds a copy of the body drawn by
\* the observed call: its content on every one of its bits.
BodyCopyIn(i) ==
    /\ i + 1 \in 1..NrCols
    /\ \A b \in last.bits : matrix[i + 1][b] = Some(last.contents)
\* Column i of the source holds the label of the observed loop: a \cds at
\* min(bits) over max(bits) - min(bits) rows, alone in its column.
LoopLabelIn(i) ==
    /\ i + 1 \in 1..NrCols
    /\ \A b \in Rows :
          matrix[i + 1][b] =
              IF b = Min(last.bits)
              THEN Some("\\cds{" \o Fmt(Max(last.bits) - Min(last.bits))
                        \o "}{\\cdots}")
              ELSE None
\* The first column that the observed call could write to.
FirstDrawn == IF Pre.matrix = <<>> THEN 1 ELSE Len(Pre.matrix)

-----------------------------------------------------------------------------
\* The idle wire of row i: quantum, or classical.
IdleWire(i) == IF i < nr_qbits THEN "\\qw" ELSE "\\cw"
\* code() adds a trailing cell to every row.
TrailingCell == \E b \in Rows : in_use[b]

\* C36: in every reachable state, every row line that code() builds has at
\* least one cell after its label, and its last cell is the idle wire of
\* the row's kind: either a trailing cell is added, and then there is one
\* cell more than there are columns, or the last column is entirely empty.
C36_RowsEndIdle ==
    /\ \A i \in Rows :
          LET cells == code_cells(Self, i) IN
          /\ Len(cells) >= 1
          /\ cells[Len(cells)] = IdleWire(i)
          /\ TrailingCell => Len(cells) = NrCols + 1
          /\ ~TrailingCell => Len(cells) = NrCols
    /\ TrailingCell \/ (NrCols >= 1 /\ LastCol = EmptyColumn)

\* No trailing cell: the column before the last holds content, the last
\* column is empty and no row is in use, so the rendered rows end with the
\* idle wires of the last column.
C36_Witness ==
    /\ ~TrailingCell
    /\ NrCols >= 2
    /\ matrix[NrCols - 1] # EmptyColumn
    /\ LastCol = EmptyColumn
    /\ code(Self) # None
    /\ \A i \in Rows :
          /\ Len(code_cells(Self, i)) = NrCols
          /\ code_row(Self, i) =
                code_lstick(Self, i)
                \o JoinCells(SubSeq(code_cells(Self, i), 1, NrCols - 1))
                \o " & " \o IdleWire(i) \o " \\\\\n"


-----------------------------------------------------------------------------
\* C37: in every reachable state, every recorded span (start, end, count)
\* has start <= end < number of columns, every open region starts at a
\* column below the number of columns, and the recorded spans and the open
\* regions together are as many as the calls of start_loop made so far.
C37_SpansWithinColumns ==
    /\ \A k \in 1..Len(loops) :
          /\ 0 <= loops[k][1]
          /\ loops[k][1] <= loops[k][2]
          /\ loops[k][2] < NrCols
    /\ \A k \in 1..Len(open_loops) :
          /\ 0 <= open_loops[k][1]
          /\ open_loops[k][1] < NrCols
    /\ Len(loops) + Len(open_loops) = started

\* Two regions were started: one is closed over more than one column, the
\* other is still open and starts at the last column.
C37_Witness ==
    /\ started = 2
    /\ Len(loops) = 1
    /\ Len(open_loops) = 1
    /\ loops[1][1] < loops[1][2]
    /\ open_loops[1][1] = NrCols - 1
    /\ ~panicked


-----------------------------------------------------------------------------
\* The rows that the observed barrier covers without marking them: the rows
\* of its runs other than the lowest of each run.
CoveredUnmarked == last.qbits \ RunStarts
\* The state after a reserve of row b and a write to it, made now.
WriteNext(b) == set_field(reserve(Self, {b}, None), b, "\\gate{X}")

\* C38: immediately after set_barrier(qbits) the rows in use are exactly
\* the lowest indices of the maximal runs of adjacent indices in qbits.
\* The other rows that the barrier covers are not in use, so that a reserve
\* of such a row followed by a write to it opens no column: the content
\* lands in the barrier's own column.
C38_BarrierOccupancy ==
    Observed("set_barrier") =>
        /\ \A b \in Rows : in_use[b] <=> b \in RunStarts
        /\ \A b \in CoveredUnmarked :
              /\ ~in_use[b]
              /\ LastCol[b] = None
              /\ Len(WriteNext(b).matrix) = NrCols
              /\ WriteNext(b).matrix[NrCols][b] = Some("\\gate{X}")
              /\ \A r \in RunStarts :
                    WriteNext(b).matrix[NrCols][r] = LastCol[r]
        /\ \A b \in RunStarts :
              Len(WriteNext(b).matrix) = NrCols + 1

\* A barrier over rows 0, 1 and 2: only row 0 is in use, and a gate
\* reserved and written on row 1 afterwards shares the barrier's column.
C38_Witness ==
    /\ Observed("set_barrier")
    /\ last.qbits = {0, 1, 2}
    /\ in_use[0] /\ ~in_use[1] /\ ~in_use[2]
    /\ LastCol[0] = Some("\\qw \\barrier{2}")
    /\ Len(WriteNext(1).matrix) = NrCols
    /\ WriteNext(1).matrix[NrCols][1] = Some("\\gate{X}")

====
